---- MODULE Spec2Model ----
(***************************************************************************)
(* A model of the PostgreSQL storage plugin of pierre_mcp_server           *)
(* (src/database_plugins/postgres.rs): the api_keys, api_key_usage,        *)
(* admin_tokens, admin_token_usage and admin_provisioned_keys tables, the   *)
(* provider-token columns of users, the A2A tables, and the operations on  *)
(* them, together with the callers the specification describes (admission  *)
(* check, admin-token verification, provisioning, audited actions).        *)
(*                                                                         *)
(* Text values whose characters matter (key ids, key prefixes: the SQL      *)
(* LIKE of get_api_key_by_prefix reads them character by character) are     *)
(* sequences of one-character strings.  Time is a number of ticks.  The     *)
(* created_at, updated_at and provisioned_at columns, which no operation    *)
(* modelled here reads, are left out of the rows.                           *)
(***************************************************************************)
EXTENDS Integers, Sequences, FiniteSets, TLC

(***************************************************************************)
(* Bounds of the model.                                                    *)
(***************************************************************************)
\* The clock runs over 0..MaxTime.
MaxTime == 4
\* The api_key_usage table holds at most MaxRows rows.
MaxRows == 6
\* Width, in bits, of the model's "32-bit" integers (u32 and INTEGER columns).
WordBits == 4
\* Where usage statistics are computed the api_key_usage table holds at most
\* MaxLedgerRows rows, and the admin_token_usage table at most MaxAuditRows.
MaxLedgerRows == 2
MaxAuditRows == 2

\* SQL NULL / Rust None in a TIMESTAMPTZ column (times are >= 0).
NullTime == -1
\* Ticks per calendar day: CURRENT_DATE is the last multiple of DayLen <= now.
DayLen == 3
\* The uses of one admin token the model follows.
MaxUses == 2

\* Option<T>: None, or Some(r).
None == <<>>
Some(r) == <<r>>

Range(f) == {f[x] : x \in DOMAIN f}

(***************************************************************************)
(* Input domains.                                                          *)
(***************************************************************************)
\* users(id): the rows of the users table (api_keys.user_id REFERENCES it).
Users == {"u1", "u2"}
\* user ids a caller may present; "u9" is no row of users.
UserInputs == Users \cup {"u9"}
\* api_keys.id values a caller may choose.
KeyIds == {<<"a", "b">>, <<"b">>}
\* key_prefix values; "_" is a character of real prefixes and a LIKE wildcard.
KeyPrefixes == {<<"a">>, <<"_">>}
KeyHashes == {"h1", "h2"}
ExpiryInputs == {NullTime, 1}
\* The request handlers that run concurrently.
Handlers == {"r1", "r2"}

(***************************************************************************)
(* Integer casts: `x as i32` wraps modulo 2^w into the signed range, and   *)
(* `y as u32` wraps back into the unsigned range.                          *)
(***************************************************************************)
WordMod == 2 ^ WordBits

\* A cast to the signed column that saturates instead of wrapping.
as_i32_Saturating(x) ==
    IF x >= WordMod \div 2 THEN WordMod \div 2 - 1 ELSE x

as_i32(x) == LET m == x % WordMod IN IF m >= WordMod \div 2 THEN m - WordMod ELSE m
as_u32(y) == y % WordMod

(***************************************************************************)
(* The tier column: format!("{:?}", tier).to_lowercase() on the way in, a   *)
(* match with a fallback on the way out.                                    *)
(***************************************************************************)
tier_to_column(t) ==
    CASE t = "Trial" -> "trial"
      [] t = "Starter" -> "starter"
      [] t = "Professional" -> "professional"
      [] t = "Enterprise" -> "enterprise"

column_to_tier(s) ==
    CASE s = "trial" -> "Trial"
      [] s = "starter" -> "Starter"
      [] s = "professional" -> "Professional"
      [] s = "enterprise" -> "Enterprise"
      [] OTHER -> "Trial"

(***************************************************************************)
(* SQL LIKE: "%" matches any run of characters, "_" any one character.     *)
(***************************************************************************)
RECURSIVE Like(_, _)
Like(s, p) ==
    IF p = <<>> THEN s = <<>>
    ELSE IF Head(p) = "%"
         THEN Like(s, Tail(p)) \/ (s # <<>> /\ Like(Tail(s), p))
         ELSE /\ s # <<>>
              /\ (Head(p) = "_" \/ Head(p) = Head(s))
              /\ Like(Tail(s), Tail(p))

(***************************************************************************)
(* State.                                                                  *)
(***************************************************************************)
VARIABLES
    now,                     \* CURRENT_TIMESTAMP, in ticks
    api_keys,                \* table api_keys: id -> row (id is the PRIMARY KEY)
    api_key_usage,           \* table api_key_usage: rows in insertion (SERIAL id) order
    admin_tokens,            \* table admin_tokens: id -> row
    admin_provisioned_keys,  \* table admin_provisioned_keys: rows in insertion order
    issued,                  \* signed admin tokens handed to callers: token id -> jwt
    pc,                      \* request handlers: where each one is
    last_call,               \* the last operation: its name, arguments and result
    users,                   \* table users: id -> the provider-token columns of the row
    encryption_key,          \* PostgresDatabase.encryption_key
    a2a_clients,             \* table a2a_clients: client_id -> row
    a2a_sessions,            \* table a2a_sessions: session_token -> row
    a2a_tasks,               \* table a2a_tasks: task_id -> row
    admin_token_usage        \* table admin_token_usage: rows in insertion order

\* The token vault, and the A2A tables.
vault_vars == <<users, encryption_key>>
a2a_vars == <<a2a_clients, a2a_sessions, a2a_tasks>>

vars == <<now, api_keys, api_key_usage, admin_tokens, admin_provisioned_keys,
          issued, pc, last_call, vault_vars, a2a_vars, admin_token_usage>>

Call(op, id, arg, ret, count) ==
    [op |-> op, id |-> id, arg |-> arg, ret |-> ret, count |-> count]

\* CURRENT_DATE: midnight of the current day.
CURRENT_DATE == now - (now % DayLen)

Tick ==
    /\ now < MaxTime
    /\ now' = now + 1
    /\ last_call' = Call("tick", <<>>, "", "Ok", 0)
    /\ UNCHANGED <<api_keys, api_key_usage, admin_tokens, admin_provisioned_keys,
                   issued, pc, vault_vars, a2a_vars, admin_token_usage>>

(***************************************************************************)
(* API keys.                                                               *)
(***************************************************************************)
\* An ApiKey value as a caller passes it to create_api_key.
ApiKey(id, user_id, key_prefix, key_hash, is_active, requests, window, expires_at) ==
    [id |-> id, user_id |-> user_id, name |-> "key", key_prefix |-> key_prefix,
     key_hash |-> key_hash, tier |-> "Starter", is_active |-> is_active,
     rate_limit_requests |-> requests, rate_limit_window |-> window,
     expires_at |-> expires_at, last_used_at |-> NullTime]

\* The row create_api_key inserts for an ApiKey.
api_key_to_row(k) ==
    [id |-> k.id, user_id |-> k.user_id, name |-> k.name,
     key_prefix |-> k.key_prefix, key_hash |-> k.key_hash,
     tier |-> tier_to_column(k.tier), is_active |-> k.is_active,
     rate_limit_requests |-> as_i32(k.rate_limit_requests),
     rate_limit_window |-> as_i32(k.rate_limit_window),
     expires_at |-> k.expires_at, last_used_at |-> NullTime]

\* The ApiKey the getters build from a row.
row_to_api_key(r) ==
    [id |-> r.id, user_id |-> r.user_id, name |-> r.name,
     key_prefix |-> r.key_prefix, key_hash |-> r.key_hash,
     tier |-> column_to_tier(r.tier), is_active |-> r.is_active,
     rate_limit_requests |-> as_u32(r.rate_limit_requests),
     rate_limit_window |-> as_u32(r.rate_limit_window),
     expires_at |-> r.expires_at, last_used_at |-> r.last_used_at]

\* INSERT INTO api_keys: fails on a duplicate id or a user_id that is no user.
create_api_key(k) ==
    /\ IF k.id \in DOMAIN api_keys \/ k.user_id \notin Users
       THEN /\ api_keys' = api_keys
            /\ last_call' = Call("create_api_key", k.id, k.user_id, "Err", 0)
       ELSE /\ api_keys' = [i \in DOMAIN api_keys \cup {k.id} |->
                               IF i = k.id THEN api_key_to_row(k) ELSE api_keys[i]]
            /\ last_call' = Call("create_api_key", k.id, k.user_id, "Ok", 0)
    /\ UNCHANGED <<now, api_key_usage, admin_tokens, admin_provisioned_keys, issued, pc,
                   vault_vars, a2a_vars, admin_token_usage>>

\* WHERE id LIKE $1 AND key_hash = $2 AND is_active = true, $1 = format!("{}%", prefix)
PrefixRowMatches(r, prefix, hash) ==
    /\ Like(r.id, prefix \o <<"%">>)
    /\ r.key_hash = hash
    /\ r.is_active

\* The possible results of get_api_key_by_prefix: fetch_optional returns the
\* first matching row, in whatever order the database produces them.
get_api_key_by_prefix(prefix, hash) ==
    LET rows == {r \in Range(api_keys) : PrefixRowMatches(r, prefix, hash)}
    IN  IF rows = {} THEN {None} ELSE {Some(row_to_api_key(r)) : r \in rows}

\* UPDATE api_keys SET is_active = false WHERE id = $1 AND user_id = $2
DeactivateRowMatches(r, api_key_id, user_id) ==
    r.id = api_key_id /\ r.user_id = user_id

deactivate_api_key(api_key_id, user_id) ==
    /\ api_keys' = [i \in DOMAIN api_keys |->
                       IF DeactivateRowMatches(api_keys[i], api_key_id, user_id)
                       THEN [api_keys[i] EXCEPT !.is_active = FALSE]
                       ELSE api_keys[i]]
    /\ last_call' = Call("deactivate_api_key", api_key_id, user_id, "Ok", 0)
    /\ UNCHANGED <<now, api_key_usage, admin_tokens, admin_provisioned_keys, issued, pc,
                   vault_vars, a2a_vars, admin_token_usage>>

\* An update of last_used_at that lost its WHERE clause.
update_api_key_last_used_AllKeys(api_key_id) ==
    /\ api_keys' = [i \in DOMAIN api_keys |-> [api_keys[i] EXCEPT !.last_used_at = now]]
    /\ last_call' = Call("update_api_key_last_used", api_key_id, "", "Ok", 0)
    /\ UNCHANGED <<now, api_key_usage, admin_tokens, admin_provisioned_keys, issued, pc,
                   vault_vars, a2a_vars, admin_token_usage>>

\* UPDATE api_keys SET last_used_at = CURRENT_TIMESTAMP WHERE id = $1
update_api_key_last_used(api_key_id) ==
    /\ api_keys' = [i \in DOMAIN api_keys |->
                       IF api_keys[i].id = api_key_id
                       THEN [api_keys[i] EXCEPT !.last_used_at = now]
                       ELSE api_keys[i]]
    /\ last_call' = Call("update_api_key_last_used", api_key_id, "", "Ok", 0)
    /\ UNCHANGED <<now, api_key_usage, admin_tokens, admin_provisioned_keys, issued, pc,
                   vault_vars, a2a_vars, admin_token_usage>>

\* The sweep's WHERE clause without its `AND is_active = true`.
CleanupRowMatches_IgnoringActive(r) ==
    /\ r.expires_at # NullTime
    /\ r.expires_at < now

\* WHERE expires_at IS NOT NULL AND expires_at < CURRENT_TIMESTAMP AND is_active = true
CleanupRowMatches(r) ==
    /\ r.expires_at # NullTime
    /\ r.expires_at < now
    /\ r.is_active

cleanup_expired_api_keys ==
    /\ api_keys' = [i \in DOMAIN api_keys |->
                       IF CleanupRowMatches(api_keys[i])
                       THEN [api_keys[i] EXCEPT !.is_active = FALSE]
                       ELSE api_keys[i]]
    /\ last_call' = Call("cleanup_expired_api_keys", <<>>, "", "Ok",
                         Cardinality({i \in DOMAIN api_keys : CleanupRowMatches(api_keys[i])}))
    /\ UNCHANGED <<now, api_key_usage, admin_tokens, admin_provisioned_keys, issued, pc,
                   vault_vars, a2a_vars, admin_token_usage>>

(***************************************************************************)
(* The usage ledger and the admission check.                               *)
(***************************************************************************)
\* `status_code as i16`
as_i16(x) == LET m == x % 65536 IN IF m >= 32768 THEN m - 65536 ELSE m

\* An ApiKeyUsage value as a caller passes it to record_api_key_usage; the
\* timing and the byte sizes are Option<u32>.
ApiKeyUsage(api_key_id, timestamp, status_code, response_time_ms, request_size_bytes, response_size_bytes) ==
    [api_key_id |-> api_key_id, timestamp |-> timestamp, status_code |-> status_code,
     response_time_ms |-> response_time_ms, request_size_bytes |-> request_size_bytes,
     response_size_bytes |-> response_size_bytes]

\* option.map(|x| x as i32)
map_as_i32(option) == IF option = None THEN None ELSE Some(as_i32(option[1]))

\* record_api_key_usage writing over the key's latest row instead of adding one.
record_api_key_usage_Overwriting(usage) ==
    LET row == [api_key_id |-> usage.api_key_id, timestamp |-> usage.timestamp,
                status_code |-> as_i16(usage.status_code),
                response_time_ms |-> map_as_i32(usage.response_time_ms),
                request_size_bytes |-> map_as_i32(usage.request_size_bytes),
                response_size_bytes |-> map_as_i32(usage.response_size_bytes)]
        mine == {i \in 1..Len(api_key_usage) :
                    api_key_usage[i].api_key_id = usage.api_key_id}
    IN  IF mine = {} THEN Append(api_key_usage, row)
        ELSE [api_key_usage EXCEPT ![CHOOSE i \in mine : \A j \in mine : j <= i] = row]

\* The api_key_usage table after record_api_key_usage(usage): one more row.
record_api_key_usage(usage) ==
    Append(api_key_usage,
           [api_key_id |-> usage.api_key_id, timestamp |-> usage.timestamp,
            status_code |-> as_i16(usage.status_code),
            response_time_ms |-> map_as_i32(usage.response_time_ms),
            request_size_bytes |-> map_as_i32(usage.request_size_bytes),
            response_size_bytes |-> map_as_i32(usage.response_size_bytes)])

\* WHERE api_key_id = $1 AND timestamp >= CURRENT_DATE
CurrentUsageRowMatches(r, api_key_id) ==
    r.api_key_id = api_key_id /\ r.timestamp >= CURRENT_DATE

\* SELECT COUNT(*) ..., then `count as u32`
get_api_key_current_usage(api_key_id) ==
    as_u32(Cardinality({i \in 1..Len(api_key_usage) :
                           CurrentUsageRowMatches(api_key_usage[i], api_key_id)}))

\* SUM(column) over rows, NULLs skipped.
RECURSIVE SumOf(_, _)
SumOf(rows, column) ==
    IF rows = {} THEN 0
    ELSE LET i == CHOOSE j \in rows : TRUE
             v == api_key_usage[i][column]
         IN  (IF v = None THEN 0 ELSE v[1]) + SumOf(rows \ {i}, column)

\* WHERE api_key_id = $1 AND timestamp >= $2 AND timestamp <= $3
UsageStatsRowMatches(r, api_key_id, start_date, end_date) ==
    /\ r.api_key_id = api_key_id
    /\ r.timestamp >= start_date
    /\ r.timestamp <= end_date

\* get_api_key_usage_stats: one aggregate query; the ApiKeyUsageStats it
\* returns takes the counts and AVG(response_time_ms) (`unwrap_or(0.0) as u64`)
\* and leaves the two SUMs of the query unread.
get_api_key_usage_stats(api_key_id, start_date, end_date) ==
    LET rows == {i \in 1..Len(api_key_usage) :
                    UsageStatsRowMatches(api_key_usage[i], api_key_id, start_date, end_date)}
        timed == {i \in rows : api_key_usage[i].response_time_ms # None}
        avg_response_time ==
            IF timed = {} THEN None
            ELSE Some(SumOf(timed, "response_time_ms") \div Cardinality(timed))
    IN  [api_key_id |-> api_key_id, period_start |-> start_date, period_end |-> end_date,
         total_requests |-> as_u32(Cardinality(rows)),
         successful_requests |->
             as_u32(Cardinality({i \in rows : /\ api_key_usage[i].status_code >= 200
                                              /\ api_key_usage[i].status_code < 300})),
         failed_requests |->
             as_u32(Cardinality({i \in rows : api_key_usage[i].status_code >= 400})),
         total_response_time_ms |->
             IF avg_response_time = None \/ avg_response_time[1] < 0 THEN 0
             ELSE avg_response_time[1],
         tool_usage |-> <<>>]

\* A request was served: the caller records its usage.  The INSERT fails when
\* api_key_id is no row of api_keys (REFERENCES api_keys(id)).
store_api_key_usage(usage) ==
    /\ Len(api_key_usage) < MaxLedgerRows
    /\ IF usage.api_key_id \in DOMAIN api_keys
       THEN /\ api_key_usage' = record_api_key_usage(usage)
            /\ last_call' = Call("record_api_key_usage", usage.api_key_id, usage, "Ok", 0)
       ELSE /\ api_key_usage' = api_key_usage
            /\ last_call' = Call("record_api_key_usage", usage.api_key_id, usage, "Err", 0)
    /\ UNCHANGED <<now, api_keys, admin_tokens, admin_provisioned_keys, issued, pc,
                   vault_vars, a2a_vars, admin_token_usage>>

\* The possible results of get_api_key_by_id: WHERE id = $1.
get_api_key_by_id(api_key_id) ==
    IF api_key_id \in DOMAIN api_keys
    THEN Some(row_to_api_key(api_keys[api_key_id]))
    ELSE None

\* check_admission: the requests made in the key's current window against its quota.
admission(api_key) ==
    IF get_api_key_current_usage(api_key.id) < api_key.rate_limit_requests
    THEN "Admitted"
    ELSE "RateLimited"

\* A request handler checks admission for a key; admitted, it goes on to the
\* request, whose usage it records afterwards.
check_admission(h, api_key_id) ==
    /\ pc[h] = None
    /\ get_api_key_by_id(api_key_id) # None
    /\ Len(api_key_usage) + Cardinality({g \in Handlers : pc[g] # None}) < MaxRows
    /\ LET api_key == get_api_key_by_id(api_key_id)[1] IN
       /\ pc' = [pc EXCEPT ![h] = IF admission(api_key) = "Admitted"
                                  THEN Some(api_key_id) ELSE None]
       /\ last_call' = Call("check_admission", api_key_id, h, admission(api_key),
                            get_api_key_current_usage(api_key_id))
    /\ UNCHANGED <<now, api_keys, api_key_usage, admin_tokens, admin_provisioned_keys,
                   issued, vault_vars, a2a_vars, admin_token_usage>>

\* The admitted request is done: its usage row is appended, stamped with the
\* time of the write.
record_usage(h) ==
    /\ pc[h] # None
    /\ api_key_usage' = record_api_key_usage(ApiKeyUsage(pc[h][1], now, 200,
                                                         Some(1), None, None))
    /\ pc' = [pc EXCEPT ![h] = None]
    /\ last_call' = Call("record_api_key_usage", pc[h][1], h, "Ok", 0)
    /\ UNCHANGED <<now, api_keys, admin_tokens, admin_provisioned_keys, issued,
                   vault_vars, a2a_vars, admin_token_usage>>

(***************************************************************************)
(* Admin tokens.                                                           *)
(***************************************************************************)
AllPermissions == {"provision_keys", "revoke_keys", "view_usage"}
PermissionOrder == <<"provision_keys", "revoke_keys", "view_usage">>

\* AdminPermissions::new / super_admin / default_admin
super_admin == AllPermissions
default_admin == {"provision_keys", "revoke_keys"}

\* AdminPermissions::to_json / from_json: the set as a JSON array, and back.
to_json(permissions) == SelectSeq(PermissionOrder, LAMBDA c : c \in permissions)
from_json(text) == {text[i] : i \in DOMAIN text}

\* AdminJwtManager: the signed token carries its claims and is signed with the
\* per-token secret; its prefix is a short leading segment of the token.
generate_token(token_id, permissions, is_super_admin, expires_at, lead, jwt_secret) ==
    [token_id |-> token_id, permissions |-> permissions,
     is_super_admin |-> is_super_admin, expires_at |-> expires_at,
     lead |-> lead, signed_with |-> jwt_secret]
generate_token_prefix(jwt_token) == jwt_token.lead
hash_token_for_storage(jwt_token) == <<"token_hash", jwt_token>>
hash_secret(jwt_secret) == <<"secret_hash", jwt_secret>>

\* A CreateAdminTokenRequest; permissions is None or Some(list).
CreateAdminTokenRequest(permissions, is_super_admin, expires_in_days) ==
    [service_name |-> "svc", permissions |-> permissions,
     is_super_admin |-> is_super_admin, expires_in_days |-> expires_in_days]

\* The permission set create_admin_token settles on.
RequestedPermissions(request) ==
    IF request.permissions # None
    THEN request.permissions[1]
    ELSE IF request.is_super_admin THEN super_admin ELSE default_admin

\* expires_in_days.map(|days| now + Duration::days(days))
RequestedExpiry(request) ==
    IF request.expires_in_days = NullTime
    THEN NullTime
    ELSE now + request.expires_in_days * DayLen

\* create_admin_token binding the signing secret itself where its hash belongs.
create_admin_token_StoringSecret(request, token_id, lead, jwt_secret) ==
    LET permissions == RequestedPermissions(request)
        expires_at == RequestedExpiry(request)
        jwt_token == generate_token(token_id, permissions, request.is_super_admin,
                                    expires_at, lead, jwt_secret)
        row == [id |-> token_id, service_name |-> request.service_name,
                token_hash |-> hash_token_for_storage(jwt_token),
                token_prefix |-> generate_token_prefix(jwt_token),
                jwt_secret_hash |-> <<"verbatim", jwt_secret>>,
                permissions |-> to_json(permissions),
                is_super_admin |-> request.is_super_admin,
                is_active |-> TRUE, expires_at |-> expires_at, usage_count |-> 0]
    IN  /\ IF token_id \in DOMAIN admin_tokens
           THEN /\ UNCHANGED <<admin_tokens, issued>>
                /\ last_call' = Call("create_admin_token", token_id, "", "Err", 0)
           ELSE /\ admin_tokens' = [i \in DOMAIN admin_tokens \cup {token_id} |->
                                       IF i = token_id THEN row ELSE admin_tokens[i]]
                /\ issued' = [i \in DOMAIN issued \cup {token_id} |->
                                 IF i = token_id THEN jwt_token ELSE issued[i]]
                /\ last_call' = Call("create_admin_token", token_id, "", "Ok", 0)
        /\ UNCHANGED <<now, api_keys, api_key_usage, admin_provisioned_keys, pc,
                       vault_vars, a2a_vars, admin_token_usage>>

\* create_admin_token: token_id, the token's leading segment and jwt_secret
\* are the random values it draws.  The INSERT fails on a duplicate id.
create_admin_token(request, token_id, lead, jwt_secret) ==
    LET permissions == RequestedPermissions(request)
        expires_at == RequestedExpiry(request)
        jwt_token == generate_token(token_id, permissions, request.is_super_admin,
                                    expires_at, lead, jwt_secret)
        row == [id |-> token_id, service_name |-> request.service_name,
                token_hash |-> hash_token_for_storage(jwt_token),
                token_prefix |-> generate_token_prefix(jwt_token),
                jwt_secret_hash |-> hash_secret(jwt_secret),
                permissions |-> to_json(permissions),
                is_super_admin |-> request.is_super_admin,
                is_active |-> TRUE, expires_at |-> expires_at, usage_count |-> 0]
    IN  /\ IF token_id \in DOMAIN admin_tokens
           THEN /\ UNCHANGED <<admin_tokens, issued>>
                /\ last_call' = Call("create_admin_token", token_id, "", "Err", 0)
           ELSE /\ admin_tokens' = [i \in DOMAIN admin_tokens \cup {token_id} |->
                                       IF i = token_id THEN row ELSE admin_tokens[i]]
                /\ issued' = [i \in DOMAIN issued \cup {token_id} |->
                                 IF i = token_id THEN jwt_token ELSE issued[i]]
                /\ last_call' = Call("create_admin_token", token_id, "", "Ok", 0)
        /\ UNCHANGED <<now, api_keys, api_key_usage, admin_provisioned_keys, pc,
                       vault_vars, a2a_vars, admin_token_usage>>

\* row_to_admin_token taking every row for an active one.
row_to_admin_token_AlwaysActive(row) ==
    [id |-> row.id, service_name |-> row.service_name,
     token_hash |-> row.token_hash, token_prefix |-> row.token_prefix,
     jwt_secret_hash |-> row.jwt_secret_hash,
     permissions |-> from_json(row.permissions),
     is_super_admin |-> row.is_super_admin, is_active |-> TRUE,
     expires_at |-> row.expires_at, usage_count |-> row.usage_count]

\* row_to_admin_token falling back to the column default '["provision_keys"]'
\* instead of reading the permissions column.
row_to_admin_token_DefaultPermissions(row) ==
    [id |-> row.id, service_name |-> row.service_name,
     token_hash |-> row.token_hash, token_prefix |-> row.token_prefix,
     jwt_secret_hash |-> row.jwt_secret_hash,
     permissions |-> from_json(<<"provision_keys">>),
     is_super_admin |-> row.is_super_admin, is_active |-> row.is_active,
     expires_at |-> row.expires_at, usage_count |-> row.usage_count]

\* The AdminToken built from a row.
row_to_admin_token(row) ==
    [id |-> row.id, service_name |-> row.service_name,
     token_hash |-> row.token_hash, token_prefix |-> row.token_prefix,
     jwt_secret_hash |-> row.jwt_secret_hash,
     permissions |-> from_json(row.permissions),
     is_super_admin |-> row.is_super_admin, is_active |-> row.is_active,
     expires_at |-> row.expires_at, usage_count |-> row.usage_count]

\* The result of get_admin_token_by_id: WHERE id = $1.
get_admin_token_by_id(token_id) ==
    IF token_id \in DOMAIN admin_tokens
    THEN Some(row_to_admin_token(admin_tokens[token_id]))
    ELSE None

\* The possible results of get_admin_token_by_prefix: WHERE token_prefix = $1,
\* the first row in whatever order the database produces them.
get_admin_token_by_prefix(token_prefix) ==
    LET rows == {r \in Range(admin_tokens) : r.token_prefix = token_prefix}
    IN  IF rows = {} THEN {None} ELSE {Some(row_to_admin_token(r)) : r \in rows}

\* The result of list_admin_tokens: every row, or with include_inactive false
\* the rows WHERE is_active = true, each through row_to_admin_token.  The
\* ORDER BY created_at DESC arranges the rows and selects none: the result is
\* kept as the set of its elements.
list_admin_tokens(include_inactive) ==
    {row_to_admin_token(r) : r \in {q \in Range(admin_tokens) : include_inactive \/ q.is_active}}

\* A use of a token that brings a revoked token back.
update_admin_token_last_used_Reactivating(token_id) ==
    /\ token_id \in DOMAIN admin_tokens => admin_tokens[token_id].usage_count < MaxUses
    /\ admin_tokens' = [i \in DOMAIN admin_tokens |->
                           IF i = token_id
                           THEN [admin_tokens[i] EXCEPT !.usage_count = @ + 1,
                                                        !.is_active = TRUE]
                           ELSE admin_tokens[i]]
    /\ last_call' = Call("update_admin_token_last_used", token_id, "", "Ok", 0)
    /\ UNCHANGED <<now, api_keys, api_key_usage, admin_provisioned_keys, issued, pc,
                   vault_vars, a2a_vars, admin_token_usage>>

\* UPDATE admin_tokens SET last_used_at = CURRENT_TIMESTAMP, last_used_ip = $1,
\* usage_count = usage_count + 1 WHERE id = $2; of these columns the rows of
\* the model keep usage_count.
update_admin_token_last_used(token_id) ==
    /\ token_id \in DOMAIN admin_tokens => admin_tokens[token_id].usage_count < MaxUses
    /\ admin_tokens' = [i \in DOMAIN admin_tokens |->
                           IF i = token_id
                           THEN [admin_tokens[i] EXCEPT !.usage_count = @ + 1]
                           ELSE admin_tokens[i]]
    /\ last_call' = Call("update_admin_token_last_used", token_id, "", "Ok", 0)
    /\ UNCHANGED <<now, api_keys, api_key_usage, admin_provisioned_keys, issued, pc,
                   vault_vars, a2a_vars, admin_token_usage>>

\* UPDATE admin_tokens SET is_active = false WHERE id = $1
AdminTokensAfterDeactivate(token_id) ==
    [i \in DOMAIN admin_tokens |->
        IF i = token_id THEN [admin_tokens[i] EXCEPT !.is_active = FALSE]
        ELSE admin_tokens[i]]

\* A revocation that cascades to the keys the token provisioned.
deactivate_admin_token_Cascading(token_id) ==
    LET provisioned == {admin_provisioned_keys[n].api_key_id :
                            n \in {m \in 1..Len(admin_provisioned_keys) :
                                       admin_provisioned_keys[m].admin_token_id = token_id}}
    IN  /\ admin_tokens' = AdminTokensAfterDeactivate(token_id)
        /\ api_keys' = [i \in DOMAIN api_keys |->
                           IF i \in provisioned THEN [api_keys[i] EXCEPT !.is_active = FALSE]
                           ELSE api_keys[i]]
        /\ admin_provisioned_keys' =
               [n \in 1..Len(admin_provisioned_keys) |->
                   IF admin_provisioned_keys[n].admin_token_id = token_id
                   THEN [admin_provisioned_keys[n] EXCEPT !.key_status = "revoked"]
                   ELSE admin_provisioned_keys[n]]
        /\ last_call' = Call("deactivate_admin_token", token_id, "", "Ok", 0)
        /\ UNCHANGED <<now, api_key_usage, issued, pc,
                       vault_vars, a2a_vars, admin_token_usage>>

deactivate_admin_token(token_id) ==
    /\ admin_tokens' = AdminTokensAfterDeactivate(token_id)
    /\ last_call' = Call("deactivate_admin_token", token_id, "", "Ok", 0)
    /\ UNCHANGED <<now, api_keys, api_key_usage, admin_provisioned_keys, issued, pc,
                   vault_vars, a2a_vars, admin_token_usage>>

\* verify: what verification answers once the prefix lookup returned `found`.
verify_admin_token_with(presented, found) ==
    IF found = None THEN "InvalidToken"
    ELSE IF found[1].token_hash # hash_token_for_storage(presented) THEN "InvalidToken"
    ELSE IF ~found[1].is_active THEN "Revoked"
    ELSE IF found[1].expires_at # NullTime /\ now >= found[1].expires_at THEN "Expired"
    ELSE "Ok"

\* The possible answers of verify for a presented token.
verify_admin_token(presented) ==
    {verify_admin_token_with(presented, found) :
        found \in get_admin_token_by_prefix(generate_token_prefix(presented))}

\* has_permission(token, capability) = is_super_admin OR capability in permissions
has_permission(token, capability) ==
    token.is_super_admin \/ capability \in token.permissions

\* The admin_provisioned_keys table after record_admin_provisioned_key.
record_admin_provisioned_key(admin_token_id, api_key_id, user_email, rate_limit_requests) ==
    LET token == get_admin_token_by_id(admin_token_id)
        service_name == IF token # None THEN token[1].service_name ELSE "unknown"
    IN  Append(admin_provisioned_keys,
               [admin_token_id |-> admin_token_id, api_key_id |-> api_key_id,
                user_email |-> user_email,
                provisioned_by_service |-> service_name,
                rate_limit_requests |-> as_i32(rate_limit_requests),
                key_status |-> "active"])

\* provision_key_on_behalf_of: verify the presented token, require the
\* provision_keys capability of the stored token, create the key, record it.
provision_key_on_behalf_of(presented, k) ==
    \E found \in get_admin_token_by_prefix(generate_token_prefix(presented)) :
        LET verdict == verify_admin_token_with(presented, found)
            ret == IF verdict # "Ok" THEN verdict
                   ELSE IF ~has_permission(found[1], "provision_keys") THEN "Unauthorized"
                   ELSE IF k.id \in DOMAIN api_keys THEN "Err"
                   ELSE "Ok"
        IN  /\ last_call' = Call("provision_key_on_behalf_of", presented.token_id,
                                 IF presented \in Range(issued) THEN "issued" ELSE "rewritten",
                                 ret, 0)
            /\ IF ret = "Ok"
               THEN /\ api_keys' = [i \in DOMAIN api_keys \cup {k.id} |->
                                       IF i = k.id THEN api_key_to_row(k) ELSE api_keys[i]]
                    /\ admin_provisioned_keys' =
                           record_admin_provisioned_key(found[1].id, k.id, k.user_id,
                                                        k.rate_limit_requests)
               ELSE UNCHANGED <<api_keys, admin_provisioned_keys>>
            /\ UNCHANGED <<now, api_key_usage, admin_tokens, issued, pc,
                           vault_vars, a2a_vars, admin_token_usage>>

(***************************************************************************)
(* The audit trail of admin tokens.                                         *)
(***************************************************************************)
\* An AdminTokenUsage value as a caller passes it to record_admin_token_usage.
AdminTokenUsage(admin_token_id, timestamp, action, target_resource, success) ==
    [admin_token_id |-> admin_token_id, timestamp |-> timestamp, action |-> action,
     target_resource |-> target_resource, success |-> success]

\* record_admin_token_usage: its Result and the admin_token_usage table after
\* it.  The INSERT fails on a storage fault, and when admin_token_id is no row
\* of admin_tokens (REFERENCES admin_tokens(id)); `.await?` returns the error.
record_admin_token_usage(usage, fault) ==
    IF fault \/ usage.admin_token_id \notin DOMAIN admin_tokens
    THEN <<"Err", admin_token_usage>>
    ELSE <<"Ok", Append(admin_token_usage,
                        [admin_token_id |-> usage.admin_token_id,
                         timestamp |-> usage.timestamp, action |-> usage.action,
                         target_resource |-> usage.target_resource,
                         success |-> usage.success])>>

\* What the privileged action answers its caller, given its own result and
\* the audit write's: here the audit error is passed on.
action_result_AuditErrorPropagated(result, audit_result) ==
    IF audit_result = "Err" THEN "Err" ELSE result

\* What the privileged action answers its caller: its own result; an audit
\* write that failed is logged and goes no further.
action_result(result, audit_result) == result

\* A privileged action and its audit record: an admin token's holder issues a
\* key (create_api_key), then the action is audited.
issue_key_audited(admin_token_id, api_key, fault) ==
    LET result == IF api_key.id \in DOMAIN api_keys \/ api_key.user_id \notin Users
                  THEN "Err" ELSE "Ok"
        usage == AdminTokenUsage(admin_token_id, now, "provision_key", api_key.id,
                                 result = "Ok")
        audit == record_admin_token_usage(usage, fault)
    IN  /\ Len(admin_token_usage) < MaxAuditRows
        /\ api_keys' = IF result = "Ok"
                       THEN [i \in DOMAIN api_keys \cup {api_key.id} |->
                                IF i = api_key.id THEN api_key_to_row(api_key)
                                ELSE api_keys[i]]
                       ELSE api_keys
        /\ admin_token_usage' = audit[2]
        /\ last_call' = Call("issue_key_audited", api_key.id,
                             [admin_token_id |-> admin_token_id, api_key |-> api_key,
                              audit |-> audit[1]],
                             action_result(result, audit[1]), 0)
        /\ UNCHANGED <<now, api_key_usage, admin_tokens, admin_provisioned_keys, issued, pc,
                       vault_vars, a2a_vars>>

(***************************************************************************)
(* The token vault: provider tokens of a user, encrypted at rest.           *)
(* AES-256-GCM is modelled by what it guarantees: a ciphertext opens only   *)
(* under the key and the nonce it was sealed with, and a corrupted          *)
(* ciphertext or nonce opens under nothing.  Expiry times are ticks, the    *)
(* resolution of the TIMESTAMPTZ column.                                    *)
(***************************************************************************)
\* SQL NULL in a TEXT column.
Null == <<>>

\* Result<T>
Ok(v) == <<"Ok", v>>
Err(e) == <<"Err", e>>

\* A users row without provider tokens.
NoTokens ==
    [strava_access_token |-> Null, strava_refresh_token |-> Null,
     strava_expires_at |-> NullTime, strava_scope |-> Null, strava_nonce |-> Null,
     fitbit_access_token |-> Null, fitbit_refresh_token |-> Null,
     fitbit_expires_at |-> NullTime, fitbit_scope |-> Null, fitbit_nonce |-> Null]

DecryptedToken(access_token, refresh_token, expires_at, scope) ==
    [access_token |-> access_token, refresh_token |-> refresh_token,
     expires_at |-> expires_at, scope |-> scope]

\* AES-256-GCM: sealing a plaintext under a key and a nonce, and opening it.
Seal(plaintext, key, nonce) == <<"sealed", plaintext, key, nonce>>
Opens(ciphertext, key, nonce) ==
    /\ Len(ciphertext) = 4
    /\ ciphertext[1] = "sealed"
    /\ ciphertext[3] = key
    /\ ciphertext[4] = nonce

\* EncryptedToken::new: both tokens sealed under one fresh nonce.
EncryptedToken_new(access_token, refresh_token, expires_at, scope, key, nonce) ==
    [access_token |-> Seal(access_token, key, nonce),
     refresh_token |-> Seal(refresh_token, key, nonce),
     expires_at |-> expires_at, scope |-> scope, nonce |-> nonce]

\* EncryptedToken::decrypt: fails unless both authentication tags verify.
EncryptedToken_decrypt(encrypted, key) ==
    IF /\ Opens(encrypted.access_token, key, encrypted.nonce)
       /\ Opens(encrypted.refresh_token, key, encrypted.nonce)
    THEN Ok(DecryptedToken(encrypted.access_token[2], encrypted.refresh_token[2],
                           encrypted.expires_at, encrypted.scope))
    ELSE Err("DecryptionError")

\* encrypt_token / decrypt_token: with the key this PostgresDatabase holds.
encrypt_token(token, nonce) ==
    EncryptedToken_new(token.access_token, token.refresh_token, token.expires_at,
                       token.scope, encryption_key, nonce)
decrypt_token(encrypted) == EncryptedToken_decrypt(encrypted, encryption_key)

\* UPDATE users SET strava_* = ... WHERE id = $6: Ok(()) whether or not a row matched.
update_strava_token(user_id, access_token, refresh_token, expires_at, scope, nonce) ==
    LET token == DecryptedToken(access_token, refresh_token, expires_at, scope)
        encrypted == encrypt_token(token, nonce)
    IN  /\ users' = [u \in DOMAIN users |->
                        IF u = user_id
                        THEN [users[u] EXCEPT !.strava_access_token = encrypted.access_token,
                                              !.strava_refresh_token = encrypted.refresh_token,
                                              !.strava_expires_at = expires_at,
                                              !.strava_scope = token.scope,
                                              !.strava_nonce = encrypted.nonce]
                        ELSE users[u]]
        /\ last_call' = Call("update_strava_token", user_id, token, "Ok", 0)
        /\ UNCHANGED <<now, api_keys, api_key_usage, admin_tokens, admin_provisioned_keys,
                       issued, pc, encryption_key, a2a_vars, admin_token_usage>>

\* get_strava_token reporting a token that does not decrypt as absent.
get_strava_token_ErrorAsAbsent(user_id) ==
    IF user_id \in DOMAIN users /\ users[user_id].strava_access_token # Null
    THEN LET row == users[user_id]
             encrypted == [access_token |-> row.strava_access_token,
                           refresh_token |-> row.strava_refresh_token,
                           expires_at |-> row.strava_expires_at,
                           scope |-> row.strava_scope, nonce |-> row.strava_nonce]
             decrypted == decrypt_token(encrypted)
         IN  IF decrypted[1] = "Err" THEN Ok(None)
             ELSE Ok(Some([decrypted[2] EXCEPT !.expires_at = row.strava_expires_at,
                                               !.scope = row.strava_scope]))
    ELSE Ok(None)

\* get_strava_token returning the stored access token undecrypted.
get_strava_token_Undecrypted(user_id) ==
    IF user_id \in DOMAIN users /\ users[user_id].strava_access_token # Null
    THEN LET row == users[user_id]
             encrypted == [access_token |-> row.strava_access_token,
                           refresh_token |-> row.strava_refresh_token,
                           expires_at |-> row.strava_expires_at,
                           scope |-> row.strava_scope, nonce |-> row.strava_nonce]
             decrypted == decrypt_token(encrypted)
         IN  IF decrypted[1] = "Err" THEN decrypted
             ELSE Ok(Some([decrypted[2] EXCEPT !.access_token = row.strava_access_token,
                                               !.expires_at = row.strava_expires_at,
                                               !.scope = row.strava_scope]))
    ELSE Ok(None)

\* SELECT strava_* FROM users WHERE id = $1 AND strava_access_token IS NOT NULL
get_strava_token(user_id) ==
    IF user_id \in DOMAIN users /\ users[user_id].strava_access_token # Null
    THEN LET row == users[user_id]
             encrypted == [access_token |-> row.strava_access_token,
                           refresh_token |-> row.strava_refresh_token,
                           expires_at |-> row.strava_expires_at,
                           scope |-> row.strava_scope, nonce |-> row.strava_nonce]
             decrypted == decrypt_token(encrypted)
         IN  IF decrypted[1] = "Err" THEN decrypted
             ELSE Ok(Some([decrypted[2] EXCEPT !.expires_at = row.strava_expires_at,
                                               !.scope = row.strava_scope]))
    ELSE Ok(None)

\* UPDATE users SET fitbit_* = ... WHERE id = $6
update_fitbit_token(user_id, access_token, refresh_token, expires_at, scope, nonce) ==
    LET token == DecryptedToken(access_token, refresh_token, expires_at, scope)
        encrypted == encrypt_token(token, nonce)
    IN  /\ users' = [u \in DOMAIN users |->
                        IF u = user_id
                        THEN [users[u] EXCEPT !.fitbit_access_token = encrypted.access_token,
                                              !.fitbit_refresh_token = encrypted.refresh_token,
                                              !.fitbit_expires_at = expires_at,
                                              !.fitbit_scope = token.scope,
                                              !.fitbit_nonce = encrypted.nonce]
                        ELSE users[u]]
        /\ last_call' = Call("update_fitbit_token", user_id, token, "Ok", 0)
        /\ UNCHANGED <<now, api_keys, api_key_usage, admin_tokens, admin_provisioned_keys,
                       issued, pc, encryption_key, a2a_vars, admin_token_usage>>

\* SELECT fitbit_* FROM users WHERE id = $1 AND fitbit_access_token IS NOT NULL
get_fitbit_token(user_id) ==
    IF user_id \in DOMAIN users /\ users[user_id].fitbit_access_token # Null
    THEN LET row == users[user_id]
             encrypted == [access_token |-> row.fitbit_access_token,
                           refresh_token |-> row.fitbit_refresh_token,
                           expires_at |-> row.fitbit_expires_at,
                           scope |-> row.fitbit_scope, nonce |-> row.fitbit_nonce]
             decrypted == decrypt_token(encrypted)
         IN  IF decrypted[1] = "Err" THEN decrypted
             ELSE Ok(Some([decrypted[2] EXCEPT !.expires_at = row.fitbit_expires_at,
                                               !.scope = row.fitbit_scope]))
    ELSE Ok(None)

\* A disconnect of one provider that clears the user's tokens of both.
clear_strava_token_AllProviders(user_id) ==
    /\ users' = [u \in DOMAIN users |-> IF u = user_id THEN NoTokens ELSE users[u]]
    /\ last_call' = Call("clear_strava_token", user_id, "", "Ok", 0)
    /\ UNCHANGED <<now, api_keys, api_key_usage, admin_tokens, admin_provisioned_keys,
                   issued, pc, encryption_key, a2a_vars, admin_token_usage>>

\* UPDATE users SET strava_access_token = NULL, strava_refresh_token = NULL,
\* strava_expires_at = NULL, strava_scope = NULL, strava_nonce = NULL WHERE id = $1
clear_strava_token(user_id) ==
    /\ users' = [u \in DOMAIN users |->
                    IF u = user_id
                    THEN [users[u] EXCEPT !.strava_access_token = Null,
                                          !.strava_refresh_token = Null,
                                          !.strava_expires_at = NullTime,
                                          !.strava_scope = Null,
                                          !.strava_nonce = Null]
                    ELSE users[u]]
    /\ last_call' = Call("clear_strava_token", user_id, "", "Ok", 0)
    /\ UNCHANGED <<now, api_keys, api_key_usage, admin_tokens, admin_provisioned_keys,
                   issued, pc, encryption_key, a2a_vars, admin_token_usage>>

\* UPDATE users SET fitbit_access_token = NULL, fitbit_refresh_token = NULL,
\* fitbit_expires_at = NULL, fitbit_scope = NULL, fitbit_nonce = NULL WHERE id = $1
clear_fitbit_token(user_id) ==
    /\ users' = [u \in DOMAIN users |->
                    IF u = user_id
                    THEN [users[u] EXCEPT !.fitbit_access_token = Null,
                                          !.fitbit_refresh_token = Null,
                                          !.fitbit_expires_at = NullTime,
                                          !.fitbit_scope = Null,
                                          !.fitbit_nonce = Null]
                    ELSE users[u]]
    /\ last_call' = Call("clear_fitbit_token", user_id, "", "Ok", 0)
    /\ UNCHANGED <<now, api_keys, api_key_usage, admin_tokens, admin_provisioned_keys,
                   issued, pc, encryption_key, a2a_vars, admin_token_usage>>

\* new(database_url, encryption_key): the database is opened again, with a key
\* that need not be the one its tokens were encrypted with.
new(key) ==
    /\ encryption_key' = key
    /\ last_call' = Call("new", <<>>, key, "Ok", 0)
    /\ UNCHANGED <<now, api_keys, api_key_usage, admin_tokens, admin_provisioned_keys,
                   issued, pc, users, a2a_vars, admin_token_usage>>

\* Someone with access to the database corrupts a stored ciphertext or nonce.
Corrupted(value) == <<"corrupted", value>>
TokenColumns ==
    {"strava_access_token", "strava_refresh_token", "strava_nonce",
     "fitbit_access_token", "fitbit_refresh_token", "fitbit_nonce"}
tamper(user_id, column) ==
    /\ user_id \in DOMAIN users
    /\ users[user_id][column] # Null
    /\ users[user_id][column][1] # "corrupted"
    /\ users' = [users EXCEPT ![user_id][column] = Corrupted(users[user_id][column])]
    /\ last_call' = Call("tamper", user_id, column, "Ok", 0)
    /\ UNCHANGED <<now, api_keys, api_key_usage, admin_tokens, admin_provisioned_keys,
                   issued, pc, encryption_key, a2a_vars, admin_token_usage>>

(***************************************************************************)
(* The A2A tables.  Of the A2A operations only create_a2a_client and        *)
(* get_a2a_client run SQL; the session and task operations return an error  *)
(* without touching the database.                                           *)
(***************************************************************************)
NotImplemented == "PostgreSQL A2A methods not yet fully implemented"

\* Uuid::new_v4(): a fresh id, the id of no users row.
FreshUuids == {"u7", "u8"}

\* An A2AClient value as a caller passes it to create_a2a_client.
A2AClient(id, capabilities, is_active) ==
    [id |-> id, name |-> "agent", public_key |-> "pk", capabilities |-> capabilities,
     is_active |-> is_active]

\* INSERT INTO a2a_clients, with user_id a fresh Uuid::new_v4(): fails on a
\* duplicate client_id, and on a user_id that is no row of users
\* (user_id UUID NOT NULL REFERENCES users(id)).
create_a2a_client(client, api_key_id, user_id) ==
    LET row == [client_id |-> client.id, user_id |-> user_id, name |-> client.name,
                client_secret_hash |-> client.public_key, api_key_hash |-> api_key_id,
                capabilities |-> client.capabilities, is_active |-> client.is_active,
                rate_limit_per_minute |-> 100, rate_limit_per_day |-> 10000]
    IN  /\ IF client.id \in DOMAIN a2a_clients \/ user_id \notin DOMAIN users
           THEN /\ a2a_clients' = a2a_clients
                /\ last_call' = Call("create_a2a_client", client.id, client.capabilities,
                                     "Err", 0)
           ELSE /\ a2a_clients' = [i \in DOMAIN a2a_clients \cup {client.id} |->
                                      IF i = client.id THEN row ELSE a2a_clients[i]]
                /\ last_call' = Call("create_a2a_client", client.id, client.capabilities,
                                     "Ok", 0)
        /\ UNCHANGED <<now, api_keys, api_key_usage, admin_tokens, admin_provisioned_keys,
                       issued, pc, vault_vars, a2a_sessions, a2a_tasks, admin_token_usage>>

\* SELECT ... FROM a2a_clients WHERE client_id = $1
get_a2a_client(client_id) ==
    IF client_id \in DOMAIN a2a_clients
    THEN LET row == a2a_clients[client_id] IN
         Ok(Some([id |-> row.client_id, name |-> row.name,
                  public_key |-> row.client_secret_hash,
                  capabilities |-> row.capabilities, is_active |-> row.is_active]))
    ELSE Ok(None)

create_a2a_session(client_id, granted_scopes, expires_in_hours) ==
    /\ last_call' = Call("create_a2a_session", client_id, granted_scopes, NotImplemented, 0)
    /\ UNCHANGED <<now, api_keys, api_key_usage, admin_tokens, admin_provisioned_keys,
                   issued, pc, vault_vars, a2a_vars, admin_token_usage>>

get_a2a_session(session_token) == Err(NotImplemented)

update_a2a_session_activity(session_token) ==
    /\ last_call' = Call("update_a2a_session_activity", session_token, "", NotImplemented, 0)
    /\ UNCHANGED <<now, api_keys, api_key_usage, admin_tokens, admin_provisioned_keys,
                   issued, pc, vault_vars, a2a_vars, admin_token_usage>>

create_a2a_task(client_id, session_id, task_type) ==
    /\ last_call' = Call("create_a2a_task", client_id, session_id, NotImplemented, 0)
    /\ UNCHANGED <<now, api_keys, api_key_usage, admin_tokens, admin_provisioned_keys,
                   issued, pc, vault_vars, a2a_vars, admin_token_usage>>

get_a2a_task(task_id) == Err(NotImplemented)

update_a2a_task_status(task_id, status) ==
    /\ last_call' = Call("update_a2a_task_status", task_id, status, NotImplemented, 0)
    /\ UNCHANGED <<now, api_keys, api_key_usage, admin_tokens, admin_provisioned_keys,
                   issued, pc, vault_vars, a2a_vars, admin_token_usage>>

(***************************************************************************)
(* Issuance as a future.  create_api_key and create_admin_token suspend at   *)
(* one place, the `.execute(&self.pool).await` of their single INSERT: the   *)
(* first poll runs everything before it, the resumption everything after.    *)
(* A caller may drop the future while it is suspended.                       *)
(***************************************************************************)
\* A table with a row added under its primary key.
WithRow(table, id, row) ==
    [i \in DOMAIN table \cup {id} |-> IF i = id THEN row ELSE table[i]]

\* An INSERT whose future is dropped leaves a row of which only the first
\* columns were written.
InsertOutcomes_ColumnByColumn(table, id, row) ==
    IF id \in DOMAIN table THEN {table}
    ELSE {table, WithRow(table, id, row),
          WithRow(table, id, [f \in {"id", "is_active"} |-> row[f]])}

\* What the INSERT of a dropped future may leave: the statement was not
\* executed, or it was executed whole (or failed on a duplicate id).
InsertOutcomes(table, id, row) ==
    IF id \in DOMAIN table THEN {table}
    ELSE {table, WithRow(table, id, row)}

\* create_api_key, first poll: the INSERT is built from the ApiKey and sent.
create_api_key_poll(h, api_key) ==
    /\ pc[h] = None
    /\ pc' = [pc EXCEPT ![h] = Some([op |-> "create_api_key", id |-> api_key.id,
                                     row |-> api_key_to_row(api_key),
                                     jwt_token |-> None])]
    /\ last_call' = Call("create_api_key_poll", api_key.id, h, "Pending", 0)
    /\ UNCHANGED <<now, api_keys, api_key_usage, admin_tokens, admin_provisioned_keys,
                   issued, vault_vars, a2a_vars, admin_token_usage>>

\* create_admin_token, first poll: id, secret, permissions, expiry, signed
\* token, prefix and hashes are computed, then the INSERT is built and sent.
create_admin_token_poll(h, request, token_id, lead, jwt_secret) ==
    LET permissions == RequestedPermissions(request)
        expires_at == RequestedExpiry(request)
        jwt_token == generate_token(token_id, permissions, request.is_super_admin,
                                    expires_at, lead, jwt_secret)
        row == [id |-> token_id, service_name |-> request.service_name,
                token_hash |-> hash_token_for_storage(jwt_token),
                token_prefix |-> generate_token_prefix(jwt_token),
                jwt_secret_hash |-> hash_secret(jwt_secret),
                permissions |-> to_json(permissions),
                is_super_admin |-> request.is_super_admin,
                is_active |-> TRUE, expires_at |-> expires_at, usage_count |-> 0]
    IN  /\ pc[h] = None
        /\ pc' = [pc EXCEPT ![h] = Some([op |-> "create_admin_token", id |-> token_id,
                                         row |-> row, jwt_token |-> Some(jwt_token)])]
        /\ last_call' = Call("create_admin_token_poll", token_id, h, "Pending", 0)
        /\ UNCHANGED <<now, api_keys, api_key_usage, admin_tokens, admin_provisioned_keys,
                       issued, vault_vars, a2a_vars, admin_token_usage>>

\* The INSERT completes and the future is resumed: `?` returns its error, or
\* the function returns Ok, create_admin_token with the signed token.
create_resume(h) ==
    /\ pc[h] # None
    /\ LET fut == pc[h][1] IN
       IF fut.op = "create_api_key"
       THEN /\ IF fut.id \in DOMAIN api_keys
               THEN /\ api_keys' = api_keys
                    /\ last_call' = Call("create_api_key", fut.id, h, "Err", 0)
               ELSE /\ api_keys' = WithRow(api_keys, fut.id, fut.row)
                    /\ last_call' = Call("create_api_key", fut.id, h, "Ok", 0)
            /\ UNCHANGED <<admin_tokens, issued>>
       ELSE /\ IF fut.id \in DOMAIN admin_tokens
               THEN /\ UNCHANGED <<admin_tokens, issued>>
                    /\ last_call' = Call("create_admin_token", fut.id, h, "Err", 0)
               ELSE /\ admin_tokens' = WithRow(admin_tokens, fut.id, fut.row)
                    /\ issued' = WithRow(issued, fut.id, fut.jwt_token[1])
                    /\ last_call' = Call("create_admin_token", fut.id, h, "Ok", 0)
            /\ UNCHANGED api_keys
    /\ pc' = [pc EXCEPT ![h] = None]
    /\ UNCHANGED <<now, api_key_usage, admin_provisioned_keys,
                   vault_vars, a2a_vars, admin_token_usage>>

\* The caller drops the suspended future: nothing after the await runs, and
\* nothing is returned.
abandon(h) ==
    /\ pc[h] # None
    /\ LET fut == pc[h][1] IN
       IF fut.op = "create_api_key"
       THEN /\ api_keys' \in InsertOutcomes(api_keys, fut.id, fut.row)
            /\ UNCHANGED admin_tokens
       ELSE /\ admin_tokens' \in InsertOutcomes(admin_tokens, fut.id, fut.row)
            /\ UNCHANGED api_keys
    /\ pc' = [pc EXCEPT ![h] = None]
    /\ last_call' = Call("abandon", pc[h][1].id, pc[h][1].op, "Dropped", 0)
    /\ UNCHANGED <<now, api_key_usage, admin_provisioned_keys, issued,
                   vault_vars, a2a_vars, admin_token_usage>>

(***************************************************************************)
(* The key store: issuance, revocation, the expiry sweep and the clock.     *)
(***************************************************************************)
ApiKeyInputs ==
    {ApiKey(id, u, p, h, TRUE, 5, 1, e) :
        id \in KeyIds, u \in Users, p \in KeyPrefixes, h \in KeyHashes,
        e \in ExpiryInputs}

\* The tables this part of the store never writes, as new() finds them in a
\* fresh database: users without provider tokens, no A2A rows, no audit rows.
InitOthers ==
    /\ users = [u \in Users |-> NoTokens]
    /\ encryption_key = "k1"
    /\ a2a_clients = <<>>
    /\ a2a_sessions = <<>>
    /\ a2a_tasks = <<>>
    /\ admin_token_usage = <<>>

Init ==
    /\ InitOthers
    /\ now = 0
    /\ api_keys = <<>>
    /\ api_key_usage = <<>>
    /\ admin_tokens = <<>>
    /\ admin_provisioned_keys = <<>>
    /\ issued = <<>>
    /\ pc = [h \in Handlers |-> None]
    /\ last_call = Call("new", <<>>, "", "Ok", 0)

Next ==
    \/ Tick
    \/ \E k \in ApiKeyInputs :
          \* the authority issues keys that are not expired yet
          (k.expires_at = NullTime \/ k.expires_at > now) /\ create_api_key(k)
    \/ \E id \in KeyIds, u \in UserInputs : deactivate_api_key(id, u)
    \/ cleanup_expired_api_keys

Spec == Init /\ [][Next]_vars

(***************************************************************************)
(* Rate limiting: two issued keys, concurrent request handlers, the clock.  *)
(***************************************************************************)
RateKey == <<"a", "b">>
OtherKey == <<"b">>
QuotaInputs == {2, 5}
WindowInputs == {1, 4}

KeysAfter(ks) ==
    [i \in {k.id : k \in ks} |-> api_key_to_row(CHOOSE k \in ks : k.id = i)]

InitRate ==
    /\ InitOthers
    /\ now = 0
    /\ \E q \in QuotaInputs, w \in WindowInputs :
          api_keys = KeysAfter({ApiKey(RateKey, "u1", <<"a">>, "h1", TRUE, q, w, NullTime),
                                ApiKey(OtherKey, "u2", <<"b">>, "h2", TRUE, 2, 1, NullTime)})
    /\ api_key_usage = <<>>
    /\ admin_tokens = <<>>
    /\ admin_provisioned_keys = <<>>
    /\ issued = <<>>
    /\ pc = [h \in Handlers |-> None]
    /\ last_call = Call("new", <<>>, "", "Ok", 0)

NextRate ==
    \/ Tick
    \/ \E h \in Handlers, id \in {RateKey, OtherKey} : check_admission(h, id)
    \/ \E h \in Handlers : record_usage(h)

SpecRate == InitRate /\ [][NextRate]_vars

(***************************************************************************)
(* Admin tokens: issuance, revocation, provisioning and the clock.          *)
(***************************************************************************)
AdminTokenIds == {"t1", "t2"}
TokenLeads == {"p1", "p2"}
JwtSecrets == {"s1"}
AdminTokenRequests ==
    {CreateAdminTokenRequest(p, s, d) :
        p \in {None, Some({"view_usage"})}, s \in BOOLEAN, d \in {NullTime, 1}}

\* What a caller may present: a token it was issued, or one whose embedded
\* claims it rewrote to grant itself everything.
Rewritten(jwt_token) ==
    [jwt_token EXCEPT !.permissions = AllPermissions, !.is_super_admin = TRUE]
PresentedTokens == Range(issued) \cup {Rewritten(t) : t \in Range(issued)}

ProvisionedKeyInputs ==
    {ApiKey(<<"a", "b">>, "u1", <<"a">>, "h1", TRUE, 5, 1, NullTime)}

NextAdmin ==
    \/ Tick
    \/ \E r \in AdminTokenRequests, t \in AdminTokenIds, l \in TokenLeads,
          j \in JwtSecrets : create_admin_token(r, t, l, j)
    \/ \E t \in AdminTokenIds : deactivate_admin_token(t)
    \/ \E p \in PresentedTokens, k \in ProvisionedKeyInputs :
          provision_key_on_behalf_of(p, k)

SpecAdmin == Init /\ [][NextAdmin]_vars

(***************************************************************************)
(* The token vault: tokens stored and read back, the database reopened      *)
(* with another key, stored columns corrupted.                              *)
(***************************************************************************)
VaultUserInputs == {"u1", "u9"}
AccessTokens == {"at1", "at2"}
RefreshTokens == {"rt1"}
TokenExpiries == {1, 2}
Scopes == {"read"}
Nonces == {<<"nonce", "n1">>, <<"nonce", "n2">>}
EncryptionKeys == {"k1", "k2"}

NextVault ==
    \/ \E u \in VaultUserInputs, a \in AccessTokens, r \in RefreshTokens,
          e \in TokenExpiries, sc \in Scopes, n \in Nonces :
          update_strava_token(u, a, r, e, sc, n)
    \/ \E u \in VaultUserInputs, a \in AccessTokens, r \in RefreshTokens,
          e \in TokenExpiries, sc \in Scopes, n \in Nonces :
          update_fitbit_token(u, a, r, e, sc, n)
    \/ \E k \in EncryptionKeys : new(k)
    \/ \E u \in VaultUserInputs, c \in TokenColumns : tamper(u, c)

SpecVault == Init /\ [][NextVault]_vars

(***************************************************************************)
(* The A2A protocol: new() connects to a database that an earlier           *)
(* deployment may have filled (migrate creates each table IF NOT EXISTS and *)
(* keeps its rows): a registered client, a session granted to it, a task.   *)
(***************************************************************************)
Capabilities == {"read", "write"}
ClientIds == {"c1", "c2"}
SessionTokens == {"s1", "s2"}
TaskIds == {"t1", "t2"}
TaskStatuses == {"pending", "running", "completed", "failed"}

A2AClientInputs ==
    {A2AClient(id, caps, TRUE) : id \in ClientIds, caps \in {{"read"}, Capabilities}}

InitA2A ==
    /\ now = 0
    /\ api_keys = <<>>
    /\ api_key_usage = <<>>
    /\ admin_tokens = <<>>
    /\ admin_provisioned_keys = <<>>
    /\ issued = <<>>
    /\ pc = [h \in Handlers |-> None]
    /\ last_call = Call("new", <<>>, "", "Ok", 0)
    /\ users = [u \in Users |-> NoTokens]
    /\ encryption_key = "k1"
    /\ \E caps \in {{"read"}, Capabilities} :
          a2a_clients = [i \in {"c1"} |->
              [client_id |-> "c1", user_id |-> "u1", name |-> "agent",
               client_secret_hash |-> "pk", api_key_hash |-> "key",
               capabilities |-> caps, is_active |-> TRUE,
               rate_limit_per_minute |-> 100, rate_limit_per_day |-> 10000]]
    /\ \E active \in BOOLEAN, e \in {1, 3} :
          a2a_sessions = [i \in {"s1"} |->
              [session_token |-> "s1", client_id |-> "c1", user_id |-> "u1",
               granted_scopes |-> {"read"}, is_active |-> active,
               expires_at |-> e, last_active_at |-> 0]]
    /\ \E st \in TaskStatuses :
          a2a_tasks = [i \in {"t1"} |->
              [task_id |-> "t1", session_token |-> "s1", task_type |-> "sync",
               status |-> st, result |-> Null]]
    /\ admin_token_usage = <<>>

NextA2A ==
    \/ Tick
    \/ \E c \in A2AClientInputs, u \in FreshUuids : create_a2a_client(c, "key", u)
    \/ \E c \in ClientIds, sc \in SUBSET Capabilities : create_a2a_session(c, sc, 1)
    \/ \E t \in SessionTokens : update_a2a_session_activity(t)
    \/ \E c \in ClientIds, t \in SessionTokens : create_a2a_task(c, t, "sync")
    \/ \E t \in TaskIds, st \in TaskStatuses : update_a2a_task_status(t, st)

SpecA2A == InitA2A /\ [][NextA2A]_vars

(***************************************************************************)
(* Issuance under abandonment: concurrent issuing calls, any of them        *)
(* dropped while suspended.                                                 *)
(***************************************************************************)
IssueKeyInputs ==
    {ApiKey(id, "u1", <<"a">>, h, TRUE, 5, 1, NullTime) : id \in KeyIds, h \in KeyHashes}
IssueTokenRequests ==
    {CreateAdminTokenRequest(p, FALSE, NullTime) : p \in {None, Some({"view_usage"})}}

NextIssue ==
    \/ \E h \in Handlers, k \in IssueKeyInputs : create_api_key_poll(h, k)
    \/ \E h \in Handlers, r \in IssueTokenRequests, t \in AdminTokenIds, l \in TokenLeads,
          j \in JwtSecrets : create_admin_token_poll(h, r, t, l, j)
    \/ \E h \in Handlers : create_resume(h)
    \/ \E h \in Handlers : abandon(h)

SpecIssue == Init /\ [][NextIssue]_vars

(***************************************************************************)
(* The ledger: keys issued under audit, requests recorded, audit writes     *)
(* that may fail, revocation and the expiry sweep.                          *)
(***************************************************************************)
LedgerKeyInputs ==
    {ApiKey(id, "u1", <<"a">>, "h1", TRUE, 5, 1, NullTime) : id \in KeyIds}
UsageTimes == {0, 1, 2}
UsageInputs ==
    {ApiKeyUsage(id, t, 200, Some(3), Some(1), Some(2)) : id \in KeyIds, t \in UsageTimes}
    \cup {ApiKeyUsage(id, 1, 302, None, None, None) : id \in KeyIds}
    \cup {ApiKeyUsage(id, 2, 404, Some(2), Some(1), None) : id \in KeyIds}
    \cup {ApiKeyUsage(<<"b">>, 0, 101, Some(1), None, Some(1))}
LedgerTokenRequests == {CreateAdminTokenRequest(None, FALSE, NullTime)}

NextLedger ==
    \/ \E r \in LedgerTokenRequests, l \in TokenLeads, j \in JwtSecrets :
          create_admin_token(r, "t1", l, j)
    \/ \E t \in AdminTokenIds, k \in LedgerKeyInputs, fault \in BOOLEAN :
          issue_key_audited(t, k, fault)
    \/ \E usage \in UsageInputs : store_api_key_usage(usage)
    \/ \E id \in KeyIds : deactivate_api_key(id, "u1")
    \/ cleanup_expired_api_keys
    \/ \E t \in AdminTokenIds : deactivate_admin_token(t)

SpecLedger == Init /\ [][NextLedger]_vars

(***************************************************************************)
(* The life of a key: issued, used, its usage recorded, revoked, swept.     *)
(***************************************************************************)
KeyLifeInputs ==
    {ApiKey(id, "u1", <<"a">>, "h1", TRUE, 5, 1, e) : id \in KeyIds, e \in ExpiryInputs}
KeyLifeUsageInputs == {ApiKeyUsage(id, 0, 200, None, None, None) : id \in KeyIds}

NextKeyLife ==
    \/ Tick
    \/ \E k \in KeyLifeInputs :
          (k.expires_at = NullTime \/ k.expires_at > now) /\ create_api_key(k)
    \/ \E id \in KeyIds : update_api_key_last_used(id)
    \/ \E id \in KeyIds, u \in Users : deactivate_api_key(id, u)
    \/ cleanup_expired_api_keys
    \/ \E usage \in KeyLifeUsageInputs : store_api_key_usage(usage)

SpecKeyLife == Init /\ [][NextKeyLife]_vars

(***************************************************************************)
(* Revocation: keys and admin tokens issued, used, revoked and swept while  *)
(* the clock advances.                                                      *)
(***************************************************************************)
RevocationTokenRequests == {CreateAdminTokenRequest(None, FALSE, NullTime)}

NextRevocation ==
    \/ Tick
    \/ \E k \in KeyLifeInputs :
          (k.expires_at = NullTime \/ k.expires_at > now) /\ create_api_key(k)
    \/ \E id \in KeyIds : update_api_key_last_used(id)
    \/ \E id \in KeyIds, u \in Users : deactivate_api_key(id, u)
    \/ cleanup_expired_api_keys
    \/ \E r \in RevocationTokenRequests, t \in AdminTokenIds, j \in JwtSecrets :
          create_admin_token(r, t, "p1", j)
    \/ \E t \in AdminTokenIds : update_admin_token_last_used(t)
    \/ \E t \in AdminTokenIds : deactivate_admin_token(t)

SpecRevocation == Init /\ [][NextRevocation]_vars

(***************************************************************************)
(* Connecting and disconnecting providers: two users, each granting,        *)
(* refreshing and withdrawing a Strava and a Fitbit token.                  *)
(***************************************************************************)
ConnectUserInputs == {"u1", "u2", "u9"}
ConnectExpiries == {1}

NextConnect ==
    \/ \E u \in ConnectUserInputs, a \in AccessTokens, r \in RefreshTokens,
          e \in ConnectExpiries, sc \in Scopes, n \in Nonces :
          update_strava_token(u, a, r, e, sc, n)
    \/ \E u \in ConnectUserInputs, a \in AccessTokens, r \in RefreshTokens,
          e \in ConnectExpiries, sc \in Scopes, n \in Nonces :
          update_fitbit_token(u, a, r, e, sc, n)
    \/ \E u \in ConnectUserInputs : clear_strava_token(u)
    \/ \E u \in ConnectUserInputs : clear_fitbit_token(u)

SpecConnect == Init /\ [][NextConnect]_vars

(***************************************************************************)
(* Quotas: a key issued with any quota and window an unsigned word holds.   *)
(***************************************************************************)
QuotaKeyInputs ==
    {ApiKey(<<"a", "b">>, "u1", <<"a">>, "h1", TRUE, q, w, NullTime) :
        q \in 0..(WordMod - 1), w \in 0..(WordMod - 1)}

NextQuota == \E k \in QuotaKeyInputs : create_api_key(k)

SpecQuota == Init /\ [][NextQuota]_vars

(***************************************************************************)
(* Claims about the key store, checked under Spec.                          *)
(***************************************************************************)
Expired(k) == k.expires_at # NullTime /\ k.expires_at < now

\* C4: in every reachable state the lookup used by verify, get_api_key_by_prefix,
\* yields no key whose expires_at is in the past, whether or not
\* cleanup_expired_api_keys has deactivated it yet.
C4_LookupNeverYieldsExpired ==
    \A p \in KeyPrefixes, h \in KeyHashes :
        \A o \in get_api_key_by_prefix(p, h) :
            o # None => ~Expired(o[1])

\* C5: for every key stored by create_api_key that is active and not expired,
\* get_api_key_by_prefix called with the key's own key_prefix and key_hash
\* returns that key, with is_active = true.
C5_VerifyReturnsIssuedKey ==
    \A id \in DOMAIN api_keys :
        LET r == api_keys[id] IN
        (r.is_active /\ ~Expired(r)) =>
            \A o \in get_api_key_by_prefix(r.key_prefix, r.key_hash) :
                /\ o # None
                /\ o[1].id = id
                /\ o[1].is_active

\* C6: get_api_key_by_prefix(prefix, hash) returns a key only when hash is the
\* stored key_hash of an active key with that key_prefix, and then that key.
C6_VerifyRejectsOtherSecrets ==
    \A p \in KeyPrefixes, h \in KeyHashes :
        \A o \in get_api_key_by_prefix(p, h) :
            o # None =>
                /\ o[1].id \in DOMAIN api_keys
                /\ api_keys[o[1].id].is_active
                /\ api_keys[o[1].id].key_hash = h
                /\ api_keys[o[1].id].key_prefix = p

\* C7: deactivate_api_key(key_id, user_id) on an existing key deactivates it
\* when user_id owns it; when user_id is not the owner it fails with
\* Unauthorized and leaves is_active as it was.
C7_RevokeChecksOwner ==
    [][ (last_call'.op = "deactivate_api_key" /\ last_call'.id \in DOMAIN api_keys) =>
            LET id == last_call'.id IN
            IF api_keys[id].user_id = last_call'.arg
            THEN last_call'.ret = "Ok" /\ ~api_keys'[id].is_active
            ELSE /\ last_call'.ret = "Unauthorized"
                 /\ api_keys'[id].is_active = api_keys[id].is_active ]_vars

\* C8: cleanup_expired_api_keys deactivates exactly the active keys whose
\* expires_at is set and in the past and returns how many they are; every
\* other row is untouched; run again at the same time, right after, it
\* changes no row and returns 0.
C8_SweepExactAndIdempotent ==
    [][ last_call'.op = "cleanup_expired_api_keys" =>
            LET due == {i \in DOMAIN api_keys :
                           /\ api_keys[i].is_active
                           /\ api_keys[i].expires_at # NullTime
                           /\ api_keys[i].expires_at < now}
            IN  /\ last_call'.count = Cardinality(due)
                /\ DOMAIN api_keys' = DOMAIN api_keys
                /\ \A i \in DOMAIN api_keys :
                      api_keys'[i] = IF i \in due
                                     THEN [api_keys[i] EXCEPT !.is_active = FALSE]
                                     ELSE api_keys[i]
                /\ (last_call.op = "cleanup_expired_api_keys" /\ now' = now) =>
                      (api_keys' = api_keys /\ last_call'.count = 0) ]_vars

\* C8 witness: a sweep has just deactivated an expired key while an active key
\* with no expiry is still active.
C8_Witness ==
    /\ last_call.op = "cleanup_expired_api_keys"
    /\ last_call.count >= 1
    /\ \E i \in DOMAIN api_keys : Expired(api_keys[i]) /\ ~api_keys[i].is_active
    /\ \E i \in DOMAIN api_keys : api_keys[i].expires_at = NullTime /\ api_keys[i].is_active

(***************************************************************************)
(* Claims about rate limiting, checked under SpecRate.                      *)
(***************************************************************************)
\* The rows of a key inside its sliding window: timestamp >= now - rate_limit_window.
RowsInWindow(id) ==
    {i \in 1..Len(api_key_usage) :
        /\ api_key_usage[i].api_key_id = id
        /\ api_key_usage[i].timestamp >= now - as_u32(api_keys[id].rate_limit_window)}

RowsOf(id) == {i \in 1..Len(api_key_usage) : api_key_usage[i].api_key_id = id}

\* C1: for a key with quota 5, once 5 admitted requests are recorded inside the
\* current window the next admission check fails with RateLimited, and once
\* the window length has passed with no further request it succeeds again.
C1_QuotaFiveThenWindowElapses ==
    \A id \in DOMAIN api_keys :
        LET api_key == row_to_api_key(api_keys[id]) IN
        api_key.rate_limit_requests = 5 =>
            /\ Cardinality(RowsInWindow(id)) >= 5 => admission(api_key) = "RateLimited"
            /\ (RowsOf(id) # {} /\ RowsInWindow(id) = {}) => admission(api_key) = "Admitted"

\* C2: get_api_key_current_usage(key) is the number of usage rows of that key
\* with timestamp >= now - the key's rate_limit_window, whatever the calendar day.
C2_CurrentUsageIsSlidingWindow ==
    \A id \in DOMAIN api_keys :
        get_api_key_current_usage(id) = Cardinality(RowsInWindow(id))

\* C3: with the handlers checking and recording concurrently, the requests
\* admitted within one window exceed the quota by at most the number of
\* checks that can be in flight together.
C3_OverAdmissionBounded ==
    \A id \in DOMAIN api_keys :
        Cardinality(RowsInWindow(id))
            <= as_u32(api_keys[id].rate_limit_requests) + Cardinality(Handlers)

(***************************************************************************)
(* Claims about admin tokens, checked under SpecAdmin.                      *)
(***************************************************************************)
TokenExpired(row) == row.expires_at # NullTime /\ now > row.expires_at

\* C9: no verification of a revoked or expired admin token succeeds: whatever
\* row get_admin_token_by_prefix returns, a presented token is accepted only
\* if it is an issued token whose row is active and not past its expires_at,
\* and right after deactivate_admin_token(id) the token of id is not accepted.
C9_RevokedOrExpiredNeverAccepted ==
    /\ \A p \in PresentedTokens :
          "Ok" \in verify_admin_token(p) =>
              /\ p.token_id \in DOMAIN admin_tokens
              /\ issued[p.token_id] = p
              /\ admin_tokens[p.token_id].is_active
              /\ ~TokenExpired(admin_tokens[p.token_id])
    /\ (last_call.op = "deactivate_admin_token" /\ last_call.id \in DOMAIN issued) =>
          "Ok" \notin verify_admin_token(issued[last_call.id])

\* C9 witness: one issued token is revoked, not expired, and answered Revoked;
\* another is active, past its expiry, and answered Expired.
C9_Witness ==
    /\ \E t \in DOMAIN issued :
          /\ ~admin_tokens[t].is_active
          /\ ~TokenExpired(admin_tokens[t])
          /\ verify_admin_token(issued[t]) = {"Revoked"}
    /\ \E t \in DOMAIN issued :
          /\ admin_tokens[t].is_active
          /\ TokenExpired(admin_tokens[t])
          /\ verify_admin_token(issued[t]) = {"Expired"}

PrefixShared(t) ==
    \E u \in DOMAIN admin_tokens :
        u # t /\ admin_tokens[u].token_prefix = admin_tokens[t].token_prefix

StravaAuthentic(row) ==
    \E a \in AccessTokens, r \in RefreshTokens, n \in Nonces :
        /\ row.strava_access_token = Seal(a, encryption_key, n)
        /\ row.strava_refresh_token = Seal(r, encryption_key, n)
        /\ row.strava_nonce = n
FitbitAuthentic(row) ==
    \E a \in AccessTokens, r \in RefreshTokens, n \in Nonces :
        /\ row.fitbit_access_token = Seal(a, encryption_key, n)
        /\ row.fitbit_refresh_token = Seal(r, encryption_key, n)
        /\ row.fitbit_nonce = n

\* C17: when a user's stored ciphertext or nonce was corrupted, or the vault
\* holds another key than the one the token was encrypted with,
\* get_strava_token / get_fitbit_token fail with a decryption error: they
\* return neither a token nor None.
C17_TamperedTokenFailsDecryption ==
    \A u \in DOMAIN users :
        /\ (users[u].strava_access_token # Null /\ ~StravaAuthentic(users[u])) =>
              get_strava_token(u) = Err("DecryptionError")
        /\ (users[u].fitbit_access_token # Null /\ ~FitbitAuthentic(users[u])) =>
              get_fitbit_token(u) = Err("DecryptionError")

\* C17 witness: a Fitbit nonce was just corrupted and the Fitbit token fails to
\* decrypt, while the Strava token, intact but encrypted under the key the
\* vault no longer holds, fails to decrypt too.
C17_Witness ==
    /\ last_call.op = "tamper"
    /\ last_call.arg = "fitbit_nonce"
    /\ get_fitbit_token(last_call.id) = Err("DecryptionError")
    /\ users[last_call.id].strava_access_token # Null
    /\ users[last_call.id].strava_access_token[1] = "sealed"
    /\ users[last_call.id].strava_refresh_token[1] = "sealed"
    /\ users[last_call.id].strava_nonce[1] = "nonce"
    /\ users[last_call.id].strava_access_token[3] # encryption_key
    /\ get_strava_token(last_call.id) = Err("DecryptionError")

(***************************************************************************)
(* Claims about the A2A protocol, checked under SpecA2A.                    *)
(***************************************************************************)
SessionValid(session) == session.is_active /\ now < session.expires_at

\* C13: submit (create_a2a_task) for a registered client with a valid session
\* yields a task in Pending; a task becomes Completed only from Running and
\* Failed only from Running or Pending; on a Completed or Failed task
\* update_a2a_task_status fails with InvalidTransition and leaves status and
\* result unchanged.
C13_TaskStateMachine ==
    [][ /\ (/\ last_call'.op = "create_a2a_task"
            /\ last_call'.id \in DOMAIN a2a_clients
            /\ last_call'.arg \in DOMAIN a2a_sessions
            /\ SessionValid(a2a_sessions[last_call'.arg])) =>
               /\ last_call'.ret = "Ok"
               /\ \E t \in DOMAIN a2a_tasks' \ DOMAIN a2a_tasks :
                     a2a_tasks'[t].status = "pending"
        /\ \A t \in DOMAIN a2a_tasks :
              /\ t \in DOMAIN a2a_tasks'
              /\ (a2a_tasks'[t].status = "completed" /\ a2a_tasks[t].status # "completed") =>
                    a2a_tasks[t].status = "running"
              /\ (a2a_tasks'[t].status = "failed" /\ a2a_tasks[t].status # "failed") =>
                    a2a_tasks[t].status \in {"running", "pending"}
        /\ (/\ last_call'.op = "update_a2a_task_status"
            /\ last_call'.id \in DOMAIN a2a_tasks
            /\ a2a_tasks[last_call'.id].status \in {"completed", "failed"}) =>
               /\ last_call'.ret = "InvalidTransition"
               /\ a2a_tasks' = a2a_tasks ]_vars

\* C14: the granted scopes of every stored session are a subset of its
\* client's capabilities, and create_a2a_session for a registered client with
\* a scope outside its capabilities fails with ScopeViolation and stores no
\* session.
C14_GrantWithinCapabilities ==
    [][ /\ \A t \in DOMAIN a2a_sessions' :
              /\ a2a_sessions'[t].client_id \in DOMAIN a2a_clients'
              /\ a2a_sessions'[t].granted_scopes
                     \subseteq a2a_clients'[a2a_sessions'[t].client_id].capabilities
        /\ (/\ last_call'.op = "create_a2a_session"
            /\ last_call'.id \in DOMAIN a2a_clients
            /\ ~(last_call'.arg \subseteq a2a_clients[last_call'.id].capabilities)) =>
               /\ last_call'.ret = "ScopeViolation"
               /\ a2a_sessions' = a2a_sessions ]_vars

\* C15: update_a2a_session_activity on a stored session succeeds, sets
\* last_active_at to now and leaves expires_at, granted_scopes and is_active
\* as they were, so the session is valid (active and now < expires_at) after
\* the touch only if it was valid before it.
C15_TouchKeepsExpiry ==
    [][ (/\ last_call'.op = "update_a2a_session_activity"
         /\ last_call'.id \in DOMAIN a2a_sessions) =>
            /\ last_call'.ret = "Ok"
            /\ a2a_sessions' =
                  [a2a_sessions EXCEPT ![last_call'.id].last_active_at = now]
            /\ SessionValid(a2a_sessions'[last_call'.id])
                  => SessionValid(a2a_sessions[last_call'.id]) ]_vars

(***************************************************************************)
(* Claims about issuance, checked under SpecIssue and SpecAdmin.            *)
(***************************************************************************)
AdminTokenColumns ==
    {"id", "service_name", "token_hash", "token_prefix", "jwt_secret_hash",
     "permissions", "is_super_admin", "is_active", "expires_at", "usage_count"}

\* C11: whenever issuing calls are abandoned while suspended, every api_keys
\* row is a complete row (hash, prefix and quota as the issuer computed them)
\* and every admin_tokens row is a complete row (token hash, prefix, secret
\* hash and permissions computed from one signed token); a credential has no
\* row or such a row, never an active row with fields still to be computed.
C11_IssuanceAtomicUnderAbandonment ==
    /\ \A id \in DOMAIN api_keys :
          \E k \in IssueKeyInputs : k.id = id /\ api_keys[id] = api_key_to_row(k)
    /\ \A t \in DOMAIN admin_tokens :
          LET row == admin_tokens[t] IN
          /\ DOMAIN row = AdminTokenColumns
          /\ row.id = t
          /\ \E r \in IssueTokenRequests, l \in TokenLeads, j \in JwtSecrets :
                LET jwt_token == generate_token(t, RequestedPermissions(r),
                                                r.is_super_admin, row.expires_at, l, j)
                IN  /\ row.token_hash = hash_token_for_storage(jwt_token)
                    /\ row.token_prefix = generate_token_prefix(jwt_token)
                    /\ row.jwt_secret_hash = hash_secret(j)
                    /\ row.permissions = to_json(RequestedPermissions(r))

\* C11 witness: an issuing call was just dropped; there is an admin token row
\* whose call was dropped after its INSERT ran (the row is stored, its token
\* was handed to nobody), and a dropped key issuance that left no row, while
\* another call is still suspended.
C11_Witness ==
    /\ last_call.op = "abandon"
    /\ \E t \in DOMAIN admin_tokens : t \notin DOMAIN issued /\ admin_tokens[t].is_active
    /\ last_call.arg = "create_api_key"
    /\ last_call.id \notin DOMAIN api_keys
    /\ \E h \in Handlers : pc[h] # None

\* C12: after any sequence of create_admin_token calls every admin_tokens row
\* holds the hash of the issued token, the token's prefix and the hash of its
\* signing secret, in no column the token or the secret themselves; the signed
\* token is what the issuing call returned to its caller, and what the store
\* reads back from the row carries no token and no secret.
C12_OnlyHashesStored ==
    /\ DOMAIN issued = DOMAIN admin_tokens
    /\ \A t \in DOMAIN admin_tokens :
          /\ issued[t].token_id = t
          /\ admin_tokens[t].token_hash = hash_token_for_storage(issued[t])
          /\ admin_tokens[t].token_prefix = generate_token_prefix(issued[t])
          /\ admin_tokens[t].jwt_secret_hash = hash_secret(issued[t].signed_with)
          /\ DOMAIN admin_tokens[t] = AdminTokenColumns
          /\ get_admin_token_by_id(t) = Some(row_to_admin_token(admin_tokens[t]))
          /\ DOMAIN row_to_admin_token(admin_tokens[t]) = AdminTokenColumns
    /\ (last_call.op = "create_admin_token" /\ last_call.ret = "Ok") =>
          last_call.id \in DOMAIN issued

\* C12 witness: two tokens are stored, the second just issued, and a key was
\* provisioned with one of them.
C12_Witness ==
    /\ last_call.op = "create_admin_token"
    /\ last_call.ret = "Ok"
    /\ Cardinality(DOMAIN admin_tokens) = 2
    /\ admin_tokens[last_call.id].token_hash = hash_token_for_storage(issued[last_call.id])
    /\ admin_tokens[last_call.id].jwt_secret_hash = hash_secret("s1")
    /\ Len(admin_provisioned_keys) = 1

C19_UsageAppendOnly ==
    [][ /\ Len(api_key_usage') >= Len(api_key_usage)
        /\ Len(api_key_usage') <= Len(api_key_usage) + 1
        /\ SubSeq(api_key_usage', 1, Len(api_key_usage)) = api_key_usage
        /\ Len(admin_token_usage') >= Len(admin_token_usage)
        /\ Len(admin_token_usage') <= Len(admin_token_usage) + 1
        /\ SubSeq(admin_token_usage', 1, Len(admin_token_usage)) = admin_token_usage
        /\ (last_call'.op = "record_api_key_usage" /\ last_call'.ret = "Ok") =>
              /\ Len(api_key_usage') = Len(api_key_usage) + 1
              /\ api_key_usage'[Len(api_key_usage')].api_key_id = last_call'.id
        /\ DOMAIN api_keys \subseteq DOMAIN api_keys'
        /\ DOMAIN admin_tokens \subseteq DOMAIN admin_tokens'
        /\ \A i \in 1..Len(api_key_usage') :
              api_key_usage'[i].api_key_id \in DOMAIN api_keys'
        /\ \A i \in 1..Len(admin_token_usage') :
              admin_token_usage'[i].admin_token_id \in DOMAIN admin_tokens' ]_vars

\* C19 witness: a second usage row of a key was just recorded after the key
\* was deactivated, and an audit row is stored.
C19_Witness ==
    /\ last_call.op = "record_api_key_usage"
    /\ last_call.ret = "Ok"
    /\ Len(api_key_usage) = 2
    /\ api_key_usage[1].api_key_id = api_key_usage[2].api_key_id
    /\ ~api_keys[last_call.id].is_active
    /\ Len(admin_token_usage) >= 1

\* The rows get_api_key_usage_stats(id, start, end) is about.
StatsRows(id, start, end) ==
    {i \in 1..Len(api_key_usage) :
        /\ api_key_usage[i].api_key_id = id
        /\ start <= api_key_usage[i].timestamp
        /\ api_key_usage[i].timestamp <= end}

\* C20: get_api_key_usage_stats(id, start, end) returns, over the usage rows of
\* the key with start <= timestamp <= end: the number of rows, the number
\* with 200 <= status < 300, the number with status >= 400 (so total >=
\* successful + failed), the average latency, and the summed request and
\* response bytes.
C20_UsageStats ==
    \A id \in KeyIds, start \in UsageTimes, end \in UsageTimes :
        LET stats == get_api_key_usage_stats(id, start, end)
            rows == StatsRows(id, start, end)
            timed == {i \in rows : api_key_usage[i].response_time_ms # None}
        IN  /\ stats.total_requests = Cardinality(rows)
            /\ stats.successful_requests =
                   Cardinality({i \in rows : api_key_usage[i].status_code \in 200..299})
            /\ stats.failed_requests =
                   Cardinality({i \in rows : api_key_usage[i].status_code >= 400})
            /\ stats.total_requests >= stats.successful_requests + stats.failed_requests
            /\ timed # {} =>
                   stats.total_response_time_ms =
                       SumOf(timed, "response_time_ms") \div Cardinality(timed)
            /\ rows # {} =>
                   /\ "total_request_size" \in DOMAIN stats
                   /\ "total_response_size" \in DOMAIN stats
                   /\ stats.total_request_size = SumOf(rows, "request_size_bytes")
                   /\ stats.total_response_size = SumOf(rows, "response_size_bytes")

\* The counts and the average latency alone, without the byte sums.
UsageStatsCountsAndAverage ==
    \A id \in KeyIds, start \in UsageTimes, end \in UsageTimes :
        LET stats == get_api_key_usage_stats(id, start, end)
            rows == StatsRows(id, start, end)
            timed == {i \in rows : api_key_usage[i].response_time_ms # None}
        IN  /\ stats.total_requests = Cardinality(rows)
            /\ stats.successful_requests =
                   Cardinality({i \in rows : api_key_usage[i].status_code \in 200..299})
            /\ stats.failed_requests =
                   Cardinality({i \in rows : api_key_usage[i].status_code >= 400})
            /\ stats.total_requests >= stats.successful_requests + stats.failed_requests
            /\ timed # {} =>
                   stats.total_response_time_ms =
                       SumOf(timed, "response_time_ms") \div Cardinality(timed)

(***************************************************************************)
(* Claims about lookups and uniqueness.                                     *)
(***************************************************************************)
\* C22: a verification attempt that must fail gives the same outcome whatever
\* the reason: get_api_key_by_prefix(prefix, hash) yields no key when no key
\* has that key_prefix, when the keys with that key_prefix have another hash,
\* and when the key with that key_prefix and hash is deactivated.
C22_FailedLookupsAlike ==
    \A p \in KeyPrefixes, h \in KeyHashes :
        LET known == {r \in Range(api_keys) : r.key_prefix = p}
            must_fail == \/ known = {}
                         \/ \A r \in known : r.key_hash # h
                         \/ \A r \in known : r.key_hash = h => ~r.is_active
        IN  must_fail => get_api_key_by_prefix(p, h) = {None}

\* C23: in every state reachable by create_api_key, deactivate_api_key and
\* cleanup_expired_api_keys, no two active api_keys rows match
\* get_api_key_by_prefix for the same (prefix, hash): its result is determined.
C23_PrefixHashResolvesOneKey ==
    \A p \in KeyPrefixes, h \in KeyHashes :
        /\ Cardinality({r \in Range(api_keys) : PrefixRowMatches(r, p, h)}) <= 1
        /\ Cardinality(get_api_key_by_prefix(p, h)) = 1

\* C24: after any sequence of create_admin_token calls no two admin_tokens
\* rows share a token_prefix, and for every issued, still active token
\* get_admin_token_by_prefix(its prefix) returns the token's own row.
C24_AdminPrefixUnique ==
    /\ \A t, u \in DOMAIN admin_tokens :
          admin_tokens[t].token_prefix = admin_tokens[u].token_prefix => t = u
    /\ \A t \in DOMAIN issued :
          (t \in DOMAIN admin_tokens /\ admin_tokens[t].is_active) =>
              get_admin_token_by_prefix(generate_token_prefix(issued[t]))
                  = {Some(row_to_admin_token(admin_tokens[t]))}

\* C26: for every key, the timestamps of its api_key_usage rows are
\* non-decreasing in insertion order.
C26_UsageTimestampsMonotonic ==
    \A i, j \in 1..Len(api_key_usage) :
        (i < j /\ api_key_usage[i].api_key_id = api_key_usage[j].api_key_id) =>
            api_key_usage[i].timestamp <= api_key_usage[j].timestamp

\* C27: create_a2a_client for a client whose id is not yet registered
\* succeeds and stores one a2a_clients row, after which get_a2a_client(id)
\* returns a client with the same id, name, public key, capabilities and
\* active flag.
C27_RegistrationCreatesClient ==
    [][ (last_call'.op = "create_a2a_client" /\ last_call'.id \notin DOMAIN a2a_clients) =>
            /\ last_call'.ret = "Ok"
            /\ DOMAIN a2a_clients' = DOMAIN a2a_clients \cup {last_call'.id}
            /\ a2a_clients'[last_call'.id].capabilities = last_call'.arg
            /\ a2a_clients'[last_call'.id].client_id = last_call'.id ]_vars

(***************************************************************************)
(* Claims about what an operation leaves alone.                             *)
(***************************************************************************)
\* C21: deactivate_admin_token(token_id) sets only that token's is_active to
\* false: every api_keys row keeps its is_active (the whole table is
\* unchanged), every admin_provisioned_keys row keeps its key_status, and all
\* other admin tokens are unchanged.
C21_RevokeAdminTokenFrame ==
    [][ last_call'.op = "deactivate_admin_token" =>
            /\ api_keys' = api_keys
            /\ admin_provisioned_keys' = admin_provisioned_keys
            /\ DOMAIN admin_tokens' = DOMAIN admin_tokens
            /\ \A t \in DOMAIN admin_tokens :
                  admin_tokens'[t] =
                      IF t = last_call'.id
                      THEN [admin_tokens[t] EXCEPT !.is_active = FALSE]
                      ELSE admin_tokens[t] ]_vars

\* A token that provisioned a key was revoked: the key is still active, its
\* ledger row still says so, and another admin token is still active.
C21_Witness ==
    /\ last_call.op = "deactivate_admin_token"
    /\ last_call.id \in DOMAIN admin_tokens
    /\ ~admin_tokens[last_call.id].is_active
    /\ \E n \in 1..Len(admin_provisioned_keys) :
          /\ admin_provisioned_keys[n].admin_token_id = last_call.id
          /\ admin_provisioned_keys[n].key_status = "active"
          /\ api_keys[admin_provisioned_keys[n].api_key_id].is_active
    /\ \E t \in DOMAIN admin_tokens : t # last_call.id /\ admin_tokens[t].is_active

\* The columns of an api_keys row that no operation may change once the row
\* is inserted: all of them but is_active and last_used_at.
ImmutableKeyColumns(r) ==
    [r EXCEPT !.is_active = TRUE, !.last_used_at = NullTime]

\* The keys a call is aimed at: the key named by update_api_key_last_used and
\* deactivate_api_key, the expired keys for the sweep, none otherwise.
TargetedKeys(call) ==
    IF call.op \in {"update_api_key_last_used", "deactivate_api_key"}
    THEN {i \in DOMAIN api_keys : i = call.id}
    ELSE IF call.op = "cleanup_expired_api_keys"
    THEN {i \in DOMAIN api_keys : api_keys[i].expires_at # NullTime /\ api_keys[i].expires_at < now}
    ELSE {}

\* C25: once create_api_key stored a key, no call of update_api_key_last_used,
\* deactivate_api_key, cleanup_expired_api_keys or record_api_key_usage (nor
\* the creation of another key) changes its id, user, name, prefix, hash,
\* tier, quota, window or expiry; only is_active and last_used_at change, and
\* only on the keys the call is aimed at.
C25_KeyImmutableButStatus ==
    [][ /\ DOMAIN api_keys \subseteq DOMAIN api_keys'
        /\ \A i \in DOMAIN api_keys :
              /\ ImmutableKeyColumns(api_keys'[i]) = ImmutableKeyColumns(api_keys[i])
              /\ api_keys'[i] # api_keys[i] => i \in TargetedKeys(last_call') ]_vars

\* One key was used and then revoked, while another key, never used, is
\* still active and a usage row was recorded.
C25_Witness ==
    /\ \E i, j \in DOMAIN api_keys :
          /\ i # j
          /\ ~api_keys[i].is_active /\ api_keys[i].last_used_at # NullTime
          /\ api_keys[j].is_active /\ api_keys[j].last_used_at = NullTime
    /\ Len(api_key_usage) > 0
    /\ last_call.op = "deactivate_api_key"

(***************************************************************************)
(* Claims about revocation, checked under SpecRevocation.                   *)
(***************************************************************************)
\* Every row of the table that is inactive is still there and inactive after
\* the step.
StaysInactive(before, after) ==
    \A i \in DOMAIN before :
        ~before[i].is_active => (i \in DOMAIN after /\ ~after[i].is_active)

\* No lookup by prefix and hash returns an inactive key, and the listing of
\* active admin tokens holds no inactive token.
InactiveNeverReturned ==
    /\ \A p \in KeyPrefixes \cup {<<"b">>}, h \in KeyHashes :
          \A found \in get_api_key_by_prefix(p, h) :
              found # None => api_keys[found[1].id].is_active
    /\ \A token \in list_admin_tokens(FALSE) : admin_tokens[token.id].is_active
    /\ \A t \in DOMAIN admin_tokens :
          ~admin_tokens[t].is_active =>
              get_admin_token_by_id(t)[1] \notin list_admin_tokens(FALSE)

\* C28: once an api_keys row or an admin_tokens row has is_active = false, no
\* operation of the store sets it back to true, so a revoked or swept
\* credential is never returned by get_api_key_by_prefix and never listed by
\* list_admin_tokens(include_inactive = false).
C28_DeactivationIrreversible ==
    /\ [][StaysInactive(api_keys, api_keys') /\ StaysInactive(admin_tokens, admin_tokens')]_vars
    /\ []InactiveNeverReturned

\* A swept key and a revoked admin token, each used again after it was
\* deactivated, next to an admin token that is still listed.
C28_Witness ==
    /\ \E i \in DOMAIN api_keys :
          /\ ~api_keys[i].is_active
          /\ api_keys[i].expires_at # NullTime
          /\ api_keys[i].last_used_at > api_keys[i].expires_at
    /\ \E t \in DOMAIN admin_tokens :
          ~admin_tokens[t].is_active /\ admin_tokens[t].usage_count = MaxUses
    /\ list_admin_tokens(FALSE) # {}
    /\ list_admin_tokens(TRUE) # list_admin_tokens(FALSE)
    /\ last_call.op = "update_admin_token_last_used"

(***************************************************************************)
(* Claims about connecting and disconnecting providers, checked under       *)
(* SpecConnect.                                                             *)
(***************************************************************************)
StravaColumns(row) ==
    <<row.strava_access_token, row.strava_refresh_token, row.strava_expires_at,
      row.strava_scope, row.strava_nonce>>
FitbitColumns(row) ==
    <<row.fitbit_access_token, row.fitbit_refresh_token, row.fitbit_expires_at,
      row.fitbit_scope, row.fitbit_nonce>>

\* The five columns update_*_token writes for a token under some nonce.
ColumnsOf(token) ==
    {<<encrypt_token(token, n).access_token, encrypt_token(token, n).refresh_token,
       token.expires_at, token.scope, encrypt_token(token, n).nonce>> : n \in Nonces}

\* A Strava operation on user u leaves u's Fitbit columns and every other
\* user's row as they were; a Fitbit operation likewise.
ProvidersIndependent ==
    /\ last_call'.op \in {"update_strava_token", "clear_strava_token"} =>
          \A u \in DOMAIN users :
              /\ u \in DOMAIN users'
              /\ FitbitColumns(users'[u]) = FitbitColumns(users[u])
              /\ u # last_call'.id => users'[u] = users[u]
    /\ last_call'.op \in {"update_fitbit_token", "clear_fitbit_token"} =>
          \A u \in DOMAIN users :
              /\ u \in DOMAIN users'
              /\ StravaColumns(users'[u]) = StravaColumns(users[u])
              /\ u # last_call'.id => users'[u] = users[u]

\* An update writes all five columns of the provider from the new token and
\* its nonce; a user without a token gets one only by an update for that user.
UpdateReplacesToken ==
    /\ (last_call'.op = "update_strava_token" /\ last_call'.id \in DOMAIN users) =>
          StravaColumns(users'[last_call'.id]) \in ColumnsOf(last_call'.arg)
    /\ (last_call'.op = "update_fitbit_token" /\ last_call'.id \in DOMAIN users) =>
          FitbitColumns(users'[last_call'.id]) \in ColumnsOf(last_call'.arg)
    /\ \A u \in DOMAIN users :
          /\ (users[u].strava_access_token = Null /\ users'[u].strava_access_token # Null)
                => (last_call'.op = "update_strava_token" /\ last_call'.id = u)
          /\ (users[u].fitbit_access_token = Null /\ users'[u].fitbit_access_token # Null)
                => (last_call'.op = "update_fitbit_token" /\ last_call'.id = u)

\* After a clear, and as long as the access-token column is NULL, the getter
\* returns None.
ClearedReadsNone ==
    /\ last_call.op = "clear_strava_token" => get_strava_token(last_call.id) = Ok(None)
    /\ last_call.op = "clear_fitbit_token" => get_fitbit_token(last_call.id) = Ok(None)
    /\ \A u \in DOMAIN users :
          /\ users[u].strava_access_token = Null =>
                (get_strava_token(u) = Ok(None) /\ StravaColumns(users[u]) = StravaColumns(NoTokens))
          /\ users[u].fitbit_access_token = Null =>
                (get_fitbit_token(u) = Ok(None) /\ FitbitColumns(users[u]) = FitbitColumns(NoTokens))

\* C29: after clear_strava_token(u), get_strava_token(u) returns None until
\* the next update_strava_token(u); update_strava_token and clear_strava_token
\* on u leave u's Fitbit token and every other user's tokens unchanged, and
\* symmetrically for Fitbit; an update replaces the provider's previous token
\* entirely, its nonce included.
C29_ProvidersIndependentAndCleared ==
    /\ [][ProvidersIndependent /\ UpdateReplacesToken]_vars
    /\ []ClearedReadsNone

\* The Strava token of u1 was just cleared: it reads None while u1's Fitbit
\* token and u2's Strava token are still returned.
C29_Witness ==
    /\ last_call.op = "clear_strava_token"
    /\ last_call.id = "u1"
    /\ get_strava_token("u1") = Ok(None)
    /\ get_fitbit_token("u1") \notin {Ok(None)}
    /\ get_fitbit_token("u1")[1] = "Ok"
    /\ get_strava_token("u2")[1] = "Ok"
    /\ get_strava_token("u2") # Ok(None)

(***************************************************************************)
(* Claims about quotas, checked under SpecQuota.                            *)
(***************************************************************************)
\* C30: for every rate_limit_requests and rate_limit_window of the unsigned
\* word, once create_api_key stored the key (casting both to the signed
\* column), get_api_key_by_id and get_api_key_by_prefix (casting back) return
\* exactly the values the caller passed.
C30_QuotaRoundTrip ==
    \A k \in QuotaKeyInputs :
        (k.id \in DOMAIN api_keys /\ api_keys[k.id] = api_key_to_row(k)) =>
            /\ get_api_key_by_id(k.id) # None
            /\ get_api_key_by_id(k.id)[1].rate_limit_requests = k.rate_limit_requests
            /\ get_api_key_by_id(k.id)[1].rate_limit_window = k.rate_limit_window
            /\ \A found \in get_api_key_by_prefix(k.key_prefix, k.key_hash) :
                  /\ found # None
                  /\ found[1].rate_limit_requests = k.rate_limit_requests
                  /\ found[1].rate_limit_window = k.rate_limit_window

\* A key was stored whose quota is the largest unsigned value and whose window
\* is the smallest value with the top bit set: both columns hold negative
\* numbers, and both getters return the unsigned values.
C30_Witness ==
    /\ last_call.op = "create_api_key"
    /\ last_call.ret = "Ok"
    /\ api_keys[last_call.id].rate_limit_requests = -1
    /\ api_keys[last_call.id].rate_limit_window = -(WordMod \div 2)
    /\ get_api_key_by_id(last_call.id)[1].rate_limit_requests = WordMod - 1
    /\ \A found \in get_api_key_by_prefix(<<"a">>, "h1") :
          found # None /\ found[1].rate_limit_window = WordMod \div 2

====
